---------------------------- MODULE Spec2Model ----------------------------
(***************************************************************************)
(* Model of the Slack synchronisation core of the e-SME backend:           *)
(*   - verifySlackRequest, the signing-secret middleware (routes/slack.js, *)
(*     held in src/src/routes/ai.js from line 168 on);                     *)
(*   - the three webhook endpoints /slack/events, /slack/commands and      *)
(*     /slack/interactions, one action per await point of their handlers;  *)
(*   - getOrCreateSlackChannel as called by GET /chats/:id.                *)
(*                                                                         *)
(* Strings are sequences of one-character strings.  A missing header, an   *)
(* unset environment variable and the empty string are all the empty       *)
(* sequence: the code tests them with `!x`, which does not tell them apart.*)
(***************************************************************************)
EXTENDS Integers, Sequences, FiniteSets, TLC

VARIABLES
    vreq,       \* the request handed to verifySlackRequest (SpecVerify)
    vres,       \* what verifySlackRequest answered, or Pending
    users,      \* table User
    chats,      \* table Chat
    messages,   \* table Message, in creation order (the index is the id)
    slack,      \* the Slack workspace: channels created, messages posted
    handlers    \* the request handlers in flight, one record per request

vars == <<vreq, vres, users, chats, messages, slack, handlers>>

(***************************************************************************)
(* Strings                                                                 *)
(***************************************************************************)
Digits == <<"0", "1", "2", "3", "4", "5", "6", "7", "8", "9">>

IsDigit(c) == \E i \in 1..10 : Digits[i] = c

DigitVal(c) == (CHOOSE i \in 1..10 : Digits[i] = c) - 1

\* Number(header) for the headers of the model: a string of decimal digits
\* is its value (leading zeros dropped), anything else is NaN.
RECURSIVE DecimalValue(_)
DecimalValue(s) ==
    IF s = <<>> THEN 0
    ELSE 10 * DecimalValue(SubSeq(s, 1, Len(s) - 1)) + DigitVal(s[Len(s)])

ToNumber(s) ==
    IF \A i \in 1..Len(s) : IsDigit(s[i])
    THEN [nan |-> FALSE, val |-> DecimalValue(s)]
    ELSE [nan |-> TRUE, val |-> 0]

\* `${timestamp}` for a non-negative integer: canonical decimal digits.
RECURSIVE NumberToString(_)
NumberToString(n) ==
    IF n < 10 THEN <<Digits[n + 1]>>
    ELSE NumberToString(n \div 10) \o <<Digits[(n % 10) + 1]>>

Abs(x) == IF x < 0 THEN -x ELSE x

(***************************************************************************)
(* verifySlackRequest                                                      *)
(***************************************************************************)
\* Length of a hex SHA-256 digest.
HexDigestLen == 64

\* The replay window, 60 * 5 seconds.
ReplayWindowSec == 300

MsPerSec == 1000

RECURSIVE PadTo(_, _)
PadTo(s, n) == IF Len(s) >= n THEN s ELSE PadTo(s \o <<"0">>, n)

\* crypto.createHmac("sha256", key).update(msg).digest("hex"), idealised:
\* a deterministic function of key and message with a fixed-length output
\* and no collision on the strings of the model ("|" occurs in none).
HmacSha256Hex(key, msg) == PadTo(key \o <<"|">> \o msg, HexDigestLen)

\* Mutant: the body is left out of the signed string.
SigBasestringWithoutBody(timestamp, rawBody) ==
    <<"v", "0", ":">> \o NumberToString(timestamp) \o <<":">>

SigBasestring(timestamp, rawBody) ==
    <<"v", "0", ":">> \o NumberToString(timestamp) \o <<":">> \o rawBody

ComputeSignature(signingSecret, timestamp, rawBody) ==
    <<"v", "0", "=">> \o HmacSha256Hex(signingSecret, SigBasestring(timestamp, rawBody))

\* Math.floor(Date.now() / 1000)
CurrentTime(nowMs) == nowMs \div MsPerSec

\* Mutant: the window is closed one second early.
OutsideReplayWindowOffByOne(currentTime, timestamp) ==
    Abs(currentTime - timestamp) >= ReplayWindowSec

OutsideReplayWindow(currentTime, timestamp) ==
    Abs(currentTime - timestamp) > ReplayWindowSec

Reply(next, status, text, compared) ==
    [next |-> next, status |-> status, text |-> text, compared |-> compared]

\* The middleware.  next = TRUE: next() was called; otherwise the response
\* status and text it sent.  compared: crypto.timingSafeEqual was called.
verifySlackRequest(slackSignature, timestampHeader, signingSecret, rawBody, nowMs) ==
    LET timestamp == ToNumber(timestampHeader)
        mySignature == ComputeSignature(signingSecret, timestamp.val, rawBody)
    IN  IF slackSignature = <<>> \/ timestampHeader = <<>>
          THEN Reply(FALSE, 400, "Missing Slack headers", FALSE)
        ELSE IF signingSecret = <<>>
          THEN Reply(FALSE, 500, "Missing SLACK_SIGNING_SECRET", FALSE)
        ELSE IF timestamp.nan
                \/ OutsideReplayWindow(CurrentTime(nowMs), timestamp.val)
          THEN Reply(FALSE, 400, "Request too old", FALSE)
        ELSE IF rawBody = <<>>
          THEN Reply(FALSE, 400, "Missing rawBody (check body parser verify)", FALSE)
        ELSE IF Len(mySignature) # Len(slackSignature)
          THEN Reply(FALSE, 400, "Invalid signature", FALSE)
        ELSE IF mySignature = slackSignature
          THEN Reply(TRUE, 0, "", TRUE)
        ELSE Reply(FALSE, 400, "Invalid signature", TRUE)

(***************************************************************************)
(* The requests verifySlackRequest is applied to (SpecVerify).  A request  *)
(* carries a signature some signer computed with its own secret over its   *)
(* own timestamp and body, possibly altered on the way, next to the        *)
(* timestamp header and the body that arrive.                              *)
(***************************************************************************)
MaxBodyLen == 1

BodyChars == {"a", "b"}

RECURSIVE StringsUpTo(_, _)
StringsUpTo(chars, n) ==
    IF n = 0 THEN {<<>>}
    ELSE LET shorter == StringsUpTo(chars, n - 1)
         IN  shorter \cup {s \o <<c>> : s \in shorter, c \in chars}

Bodies == StringsUpTo(BodyChars, MaxBodyLen)

Secrets == {<<"k">>, <<"q">>}

\* Date.now() of the model, in milliseconds: second 400, at its start and end.
NowMsValues == {400 * MsPerSec, 400 * MsPerSec + (MsPerSec - 1)}

\* Timestamps on both edges of the window around second 400.
SignedTimestamps ==
    {400 - ReplayWindowSec - 1, 400 - ReplayWindowSec,
     400 + ReplayWindowSec, 400 + ReplayWindowSec + 1}

TimestampHeaders ==
    {NumberToString(t) : t \in SignedTimestamps}
        \cup {<<>>, <<"0">> \o NumberToString(400 - ReplayWindowSec), <<"1", "x">>}

TamperModes == {"none", "flipPrefix", "flipDigest", "truncate"}

\* One character of the string replaced by another one.
FlipAt(s, i) == [s EXCEPT ![i] = IF s[i] = "Z" THEN "Y" ELSE "Z"]

Tamper(sig, mode) ==
    CASE mode = "none" -> sig
      [] mode = "flipPrefix" -> FlipAt(sig, 1)
      [] mode = "flipDigest" -> FlipAt(sig, 4)
      [] mode = "truncate" -> SubSeq(sig, 1, Len(sig) - 1)

Pending == [next |-> FALSE, status |-> -1, text |-> "pending", compared |-> FALSE]

VerifyRequests ==
    [signedKey : Secrets, signedTs : SignedTimestamps, signedBody : Bodies,
     tamper : TamperModes \cup {"absent"},
     timestampHeader : TimestampHeaders, rawBody : Bodies,
     signingSecret : Secrets \cup {<<>>}, nowMs : NowMsValues]

SignatureHeader(r) ==
    IF r.tamper = "absent" THEN <<>>
    ELSE Tamper(ComputeSignature(r.signedKey, r.signedTs, r.signedBody), r.tamper)

Idle == [signedKey |-> <<>>, signedTs |-> 0, signedBody |-> <<>>, tamper |-> "absent",
         timestampHeader |-> <<>>, rawBody |-> <<>>, signingSecret |-> <<>>, nowMs |-> 0]

\* What the other specifications leave alone.
NoStore ==
    /\ users = <<>>
    /\ chats = <<>>
    /\ messages = <<>>
    /\ slack = <<>>
    /\ handlers = <<>>

InitVerify ==
    /\ vreq \in VerifyRequests
    /\ vres = Pending
    /\ NoStore

Verify ==
    /\ vres = Pending
    /\ vres' = verifySlackRequest(SignatureHeader(vreq), vreq.timestampHeader,
                                  vreq.signingSecret, vreq.rawBody, vreq.nowMs)
    /\ UNCHANGED <<vreq, users, chats, messages, slack, handlers>>

NextVerify == Verify

SpecVerify == InitVerify /\ [][NextVerify]_vars

(***************************************************************************)
(* The older verifySlackRequest kept in src/src/routes/slack.js: no check  *)
(* of the secret, of NaN or of the body, the timestamp header signed as it *)
(* arrived, no test of the lengths and no try/catch.                       *)
(***************************************************************************)
SigBasestringVariant(timestampHeader, rawBody) ==
    <<"v", "0", ":">> \o timestampHeader \o <<":">> \o rawBody

ComputeSignatureVariant(signingSecret, timestampHeader, rawBody) ==
    <<"v", "0", "=">>
        \o HmacSha256Hex(signingSecret, SigBasestringVariant(timestampHeader, rawBody))

\* An exception that leaves the middleware: no response of its own.
Thrown(error, compared) == Reply(FALSE, 0, error, compared)

\* crypto.timingSafeEqual(a, b) throws a RangeError when a and b differ in
\* length; createHmac throws a TypeError on a key that is not set.
verifySlackRequestVariant(slackSignature, timestampHeader, signingSecret, rawBody, nowMs) ==
    LET timestamp == ToNumber(timestampHeader)
        mySignature == ComputeSignatureVariant(signingSecret, timestampHeader, rawBody)
    IN  IF slackSignature = <<>> \/ timestampHeader = <<>>
          THEN Reply(FALSE, 400, "Missing Slack headers", FALSE)
        ELSE IF ~timestamp.nan /\ OutsideReplayWindow(CurrentTime(nowMs), timestamp.val)
          THEN Reply(FALSE, 400, "Request too old", FALSE)
        ELSE IF signingSecret = <<>>
          THEN Thrown("TypeError", FALSE)
        ELSE IF Len(mySignature) # Len(slackSignature)
          THEN Thrown("RangeError", TRUE)
        ELSE IF mySignature = slackSignature
          THEN Reply(TRUE, 0, "", TRUE)
        ELSE Reply(FALSE, 400, "Invalid signature", TRUE)

VerifyVariant ==
    /\ vres = Pending
    /\ vres' = verifySlackRequestVariant(SignatureHeader(vreq), vreq.timestampHeader,
                                         vreq.signingSecret, vreq.rawBody, vreq.nowMs)
    /\ UNCHANGED <<vreq, users, chats, messages, slack, handlers>>

NextVerifyVariant == VerifyVariant

SpecVerifyVariant == InitVerify /\ [][NextVerifyVariant]_vars

(***************************************************************************)
(* The store, the workspace and the webhook requests.                      *)
(* Ids and tokens are atomic strings, "" standing for null.  Message ids   *)
(* are positions in `messages`; Slack stamps the n-th post of the model    *)
(* with PostTs(n), apart from the ids of the inbound events.               *)
(***************************************************************************)
\* Requests per behaviour: of any kind (SpecWebhooks), and deliveries of
\* message events, which run concurrently (SpecPull).
MaxRequests == 1

MaxDeliveries == 2

HandlerIds == DOMAIN handlers

\* The ids ("ts") Slack gave the inbound messages.
EventTs == {1, 2}

\* Slack message ids of the posts, apart from the ids of the inbound events.
PostTs(n) == 100 + n

ServerSecret == <<"k">>

\* x-slack-signature / x-slack-request-timestamp / raw body of the webhook
\* requests: correctly signed, signature altered, and signed but replayed
\* one second after the window.
AuthValid ==
    [signedKey |-> ServerSecret, signedTs |-> 400, signedBody |-> <<"a">>,
     tamper |-> "none", timestampHeader |-> NumberToString(400),
     rawBody |-> <<"a">>, signingSecret |-> ServerSecret, nowMs |-> 400 * MsPerSec]

AuthForged == [AuthValid EXCEPT !.tamper = "flipDigest"]

AuthReplayed == [AuthValid EXCEPT !.nowMs = (400 + ReplayWindowSec + 1) * MsPerSec]

NoEvent ==
    [present |-> FALSE, type |-> "", subtype |-> "", bot_id |-> "", text |-> "",
     thread_ts |-> 0, channel_type |-> "", channel |-> "", user |-> "", ts |-> 0]

\* A plain human message in a private channel.
HumanMessage(ts, channel, user) ==
    [present |-> TRUE, type |-> "message", subtype |-> "", bot_id |-> "",
     text |-> "q", thread_ts |-> 0, channel_type |-> "group",
     channel |-> channel, user |-> user, ts |-> ts]

Plain == HumanMessage(1, "C1", "S1")

\* Events the filter of the handler is there for.
OtherEvents ==
    { NoEvent,
      [Plain EXCEPT !.type = "reaction_added"],
      [Plain EXCEPT !.subtype = "message_changed"],
      [Plain EXCEPT !.bot_id = "B1"],
      [Plain EXCEPT !.text = ""],
      [Plain EXCEPT !.thread_ts = 1, !.ts = 2],
      [Plain EXCEPT !.channel_type = "im"] }

InboundEvents ==
    {HumanMessage(t, "C1", "S1") : t \in EventTs}
        \cup {[HumanMessage(1, "C9", "S1") EXCEPT !.channel_type = "channel"],
              HumanMessage(1, "C1", "S9")}
        \cup OtherEvents

Request(ep, auth, bodyType, event, command, text, user_id, payloadOk) ==
    [ep |-> ep, auth |-> auth, bodyType |-> bodyType, event |-> event,
     command |-> command, text |-> text, user_id |-> user_id,
     payloadOk |-> payloadOk]

EventRequest(auth, bodyType, event) ==
    Request("events", auth, bodyType, event, "", "", "", TRUE)

CommandRequest(auth, command, text, user_id) ==
    Request("commands", auth, "", NoEvent, command, text, user_id, TRUE)

InteractionRequest(auth, payloadOk) ==
    Request("interactions", auth, "", NoEvent, "", "", "", payloadOk)

NoRequest == Request("none", Idle, "", NoEvent, "", "", "", TRUE)

EventRequests ==
    {EventRequest(AuthValid, "event_callback", e) : e \in InboundEvents}
        \cup {EventRequest(a, "event_callback", Plain) : a \in {AuthForged, AuthReplayed}}
        \cup {EventRequest(a, "url_verification", e) :
                  a \in {AuthValid, AuthForged}, e \in {NoEvent, Plain}}

\* Deliveries of one message (id 1) of a connected user in the bound channel,
\* and messages of an unbound channel, of an unknown user and of a bot.
PullRequests ==
    {EventRequest(AuthValid, "event_callback", e) :
        e \in {Plain, [HumanMessage(1, "C9", "S1") EXCEPT !.channel_type = "channel"],
               HumanMessage(1, "C1", "S9"), [Plain EXCEPT !.bot_id = "B1"]}}

CommandRequests ==
    {CommandRequest(AuthValid, c[1], c[2], "S1") :
        c \in {<<"/esme-chats", "">>, <<"/esme-chats", "shared">>, <<"/other", "">>}}
        \cup {CommandRequest(AuthValid, "/esme-chats", "", "S9"),
              CommandRequest(AuthForged, "/esme-chats", "", "S1")}

InteractionRequests ==
    {InteractionRequest(AuthValid, TRUE), InteractionRequest(AuthValid, FALSE),
     InteractionRequest(AuthForged, TRUE)}

NoChat ==
    [id |-> "", ownerId |-> "", slackChannelId |-> "", ownerSlackAccessToken |-> "",
     files |-> 0]

NoResponse == [status |-> 0, text |-> ""]

MaxFiles == 2

\* `unreadable` are the documents whose getDriveFileContent threw and `sent`
\* is the prompt callGemini was given.
IdleHandler ==
    [req |-> NoRequest, pc |-> "idle", res |-> NoResponse, chat |-> NoChat,
     senderUser |-> "", driveAccessToken |-> "", unreadable |-> {}, sent |-> <<>>,
     aiResponse |-> "", aiMessage |-> 0, slackTs |-> 0, trace |-> <<>>]

UserIds == {"u1"}

ChatIds == {"c1"}

\* The owner connected Slack and opened the chat, which created channel C1;
\* Google granted offline access (a refresh token) or did not.
InitStore(n, files) ==
    /\ vreq = Idle
    /\ vres = Pending
    /\ \E rt \in {"", "rt"} :
         users = [u \in UserIds |->
                    [slackUserId |-> "S1", slackAccessToken |-> "xoxb",
                     refreshToken |-> rt, accessToken |-> "at0"]]
    /\ chats = [c \in ChatIds |->
                  [ownerId |-> "u1", name |-> "n", slackChannelId |-> "C1",
                   slackChannelName |-> "esme-n-c1", files |-> files]]
    /\ messages = <<>>
    /\ slack = [posts |-> <<>>]
    /\ handlers = [h \in 1..n |-> IdleHandler]

\* One request at a time, for a chat with MaxFiles documents.
InitWebhooks == InitStore(MaxRequests, MaxFiles)

\* Several deliveries in flight, for a chat without documents: what is read
\* from the documents is checked with one request at a time.
InitPull == InitStore(MaxDeliveries, 0)

(***************************************************************************)
(* POST /slack/events, /slack/commands, /slack/interactions.               *)
(* A handler runs one action per await; the code between two awaits is     *)
(* part of the action that ends at the second.  `trace` lists, in order,   *)
(* what the handler has done: the response, store reads and writes, and    *)
(* calls to Google, Gemini and Slack.  Store reads are taken to succeed;   *)
(* external calls and the writes of the assistant message may fail.        *)
(***************************************************************************)
Set(h, rec) == handlers' = [handlers EXCEPT ![h] = rec]

Did(rec, what) == [rec EXCEPT !.trace = Append(@, what)]

Goto(rec, pc) == [rec EXCEPT !.pc = pc]

\* Mutant: the middleware is not mounted on the route.
VerdictUnchecked(r) == Reply(TRUE, 0, "", FALSE)

\* verifySlackRequest as mounted on the three routes.
Verdict(r) ==
    verifySlackRequest(SignatureHeader(r.auth), r.auth.timestampHeader,
                       r.auth.signingSecret, r.auth.rawBody, r.auth.nowMs)

Rejected(rec, r) ==
    [rec EXCEPT !.req = r, !.pc = "done",
                !.res = [status |-> Verdict(r).status, text |-> Verdict(r).text]]

\* Mutant: the handler does not answer before it goes on.
AcknowledgeNot(rec) == rec

\* res.status(200).send()
Acknowledge(rec) == Did([rec EXCEPT !.res = [status |-> 200, text |-> ""]], "ack")

\* Mutant: the filter of the earlier handler, which looks at the type, the
\* bot id and the group only.
IgnoredUnlessGroupMessage(event) ==
    ~(event.present /\ event.type = "message" /\ event.bot_id = ""
        /\ event.channel_type = "group")

\* The shape filter of the events handler: TRUE when the event is dropped.
Ignored(event) ==
    \/ ~event.present
    \/ event.type # "message"
    \/ event.subtype # ""
    \/ event.bot_id # ""
    \/ event.text = ""
    \/ event.thread_ts # 0
    \/ ~(event.channel_type = "group" \/ event.channel_type = "channel")

\* A request may arrive once the ones before it have (the handlers are
\* interchangeable; this only fixes their numbering).
CanArrive(h) ==
    /\ handlers[h].pc = "idle"
    /\ IF h = 1 THEN TRUE ELSE handlers[h - 1].pc # "idle"

\* Mutant: the handshake is answered only under a valid signature.
HandshakeVerified(r) == r.bodyType = "url_verification" /\ Verdict(r).next

\* if (req.body?.type === "url_verification"), ahead of verifySlackRequest
Handshake(r) == r.bodyType = "url_verification"

ReceiveEvent(h, requests) ==
    /\ CanArrive(h)
    /\ \E r \in requests :
         LET rec == [handlers[h] EXCEPT !.req = r] IN
         IF Handshake(r)
           THEN Set(h, Did([rec EXCEPT !.pc = "done",
                                       !.res = [status |-> 200, text |-> "challenge"]],
                           "challenge"))
         ELSE IF ~Verdict(r).next
           THEN Set(h, Rejected(rec, r))
         ELSE Set(h, Goto(Acknowledge(rec),
                          IF Ignored(r.event) THEN "done" ELSE "findChat"))
    /\ UNCHANGED <<vreq, vres, users, chats, messages, slack>>

ChatsByChannel(channel) == {c \in DOMAIN chats : chats[c].slackChannelId = channel}

\* prisma.chat.findUnique({ where: { slackChannelId }, include: { files, owner } })
FindChat(h) ==
    LET rec == Did(handlers[h], "findChat")
        found == ChatsByChannel(rec.req.event.channel)
    IN  /\ handlers[h].pc = "findChat"
        /\ IF found = {} \/ rec.req.event.channel = ""
             THEN Set(h, Goto(rec, "done"))
           ELSE LET c == CHOOSE c \in found : TRUE IN
                Set(h, Goto([rec EXCEPT !.chat =
                        [id |-> c, ownerId |-> chats[c].ownerId,
                         slackChannelId |-> chats[c].slackChannelId,
                         ownerSlackAccessToken |->
                             users[chats[c].ownerId].slackAccessToken,
                         files |-> chats[c].files]], "findSender"))
        /\ UNCHANGED <<vreq, vres, users, chats, messages, slack>>

UsersBySlackId(slackUserId) ==
    {u \in DOMAIN users : slackUserId # "" /\ users[u].slackUserId = slackUserId}

\* Mutant: a sender without an account is let through.
PcUnknownSenderGoesOn == "findExisting"

\* Where the handler goes when no user has the sender's Slack id.
PcUnknownSender == "done"

\* prisma.user.findUnique({ where: { slackUserId: event.user } })
FindSender(h) ==
    LET rec == Did(handlers[h], "findSender")
        found == UsersBySlackId(rec.req.event.user)
    IN  /\ handlers[h].pc = "findSender"
        /\ IF found = {}
             THEN Set(h, Goto(rec, PcUnknownSender))
           ELSE Set(h, Goto([rec EXCEPT !.senderUser = CHOOSE u \in found : TRUE],
                            "findExisting"))
        /\ UNCHANGED <<vreq, vres, users, chats, messages, slack>>

\* Mutant: the handler goes on to the token without saving the message.
PcSkippingHumanMessage == "loadOwner"

\* Mutant: a redelivered event is handled again.
PcDuplicateGoesOn == "createHuman"

\* Where the handler goes when a message has the event's id already.
PcDuplicate == "done"

\* Where the handler goes when the duplicate check finds nothing.
PcAfterDuplicateCheck == "createHuman"

\* Mutant: any message that came from Slack or went to it counts.
ExistingAnyId(ts) == {i \in 1..Len(messages) : messages[i].slackTs # 0}

\* where: { slackTs: event.ts }, in whatever chat
Existing(ts) == {i \in 1..Len(messages) : messages[i].slackTs = ts}

\* prisma.message.findFirst({ where: { slackTs: event.ts } })
FindExisting(h) ==
    LET rec == Did(handlers[h], "findExisting")
        existing == Existing(rec.req.event.ts)
    IN  /\ handlers[h].pc = "findExisting"
        /\ Set(h, Goto(rec, IF existing # {} THEN PcDuplicate ELSE PcAfterDuplicateCheck))
        /\ UNCHANGED <<vreq, vres, users, chats, messages, slack>>

\* The row of the Slack user's message.
HumanRow(h, rec) ==
    [chatId |-> rec.chat.id, sender |-> "user", text |-> rec.req.event.text,
     userId |-> rec.senderUser, slackTs |-> rec.req.event.ts,
     syncedToSlack |-> TRUE, by |-> h]

CreateHuman(h) ==
    LET rec == Did(handlers[h], "createHuman") IN
    /\ handlers[h].pc = "createHuman"
    /\ messages' = Append(messages, HumanRow(h, rec))
    /\ Set(h, Goto(rec, "loadOwner"))
    /\ UNCHANGED <<vreq, vres, users, chats, slack>>

\* Mutant: the refresh goes ahead without a refresh token.
HasRefreshTokenUnchecked(user) == TRUE

\* The guard of getFreshGoogleAccessTokenForUser on the stored user.
HasRefreshToken(user) == user.refreshToken # ""

\* getFreshGoogleAccessTokenForUser: prisma.user.findUnique, then the guard.
LoadOwner(h) ==
    LET rec == Did(handlers[h], "loadOwner") IN
    /\ handlers[h].pc = "loadOwner"
    /\ Set(h, Goto(rec, IF HasRefreshToken(users[rec.chat.ownerId])
                          THEN "tokenFetch" ELSE "catchFindChat"))
    /\ UNCHANGED <<vreq, vres, users, chats, messages, slack>>

\* Mutant: a rejected exchange is not thrown.
PcExchangeRejectedGoesOn == "saveToken"

\* Where the handler goes when Google rejects the exchange: the throw of
\* getFreshGoogleAccessTokenForUser lands in the catch of the handler.
PcExchangeRejected == "catchFindChat"

\* getFreshGoogleAccessTokenForUser: the refresh-token grant at Google.
TokenFetch(h) ==
    LET rec == Did(handlers[h], "tokenFetch") IN
    /\ handlers[h].pc = "tokenFetch"
    /\ \E ok \in BOOLEAN :
         Set(h, IF ok THEN Goto([rec EXCEPT !.driveAccessToken = "at1"], "saveToken")
                      ELSE Goto(rec, PcExchangeRejected))
    /\ UNCHANGED <<vreq, vres, users, chats, messages, slack>>

\* getFreshGoogleAccessTokenForUser: prisma.user.update({ accessToken })
SaveToken(h) ==
    LET rec == Did(handlers[h], "saveToken") IN
    /\ handlers[h].pc = "saveToken"
    /\ users' = [users EXCEPT ![rec.chat.ownerId].accessToken = rec.driveAccessToken]
    /\ Set(h, Goto(rec, "readFiles"))
    /\ UNCHANGED <<vreq, vres, chats, messages, slack>>

\* What getDriveFileContent gives for a document that can be read.
FileText(f) == [name |-> f, content |-> "text"]

\* fileContents of the events handler: the catch of its loop only logs, so
\* a document that cannot be read leaves no entry.
EventFileContents(files, unreadable) ==
    LET Kept(f) == f \notin unreadable
        Content(f) == FileText(f)
        kept == SelectSeq([f \in 1..files |-> f], Kept)
    IN  [i \in 1..Len(kept) |-> Content(kept[i])]

\* combinedPrompt of the events handler: the system prompt, one block for
\* each entry of fileContents in order, and event.text.
EventPrompt(fileContents, text) ==
    <<[name |-> 0, content |-> "system"]>>
        \o fileContents \o <<[name |-> 0, content |-> text]>>

\* The loop over chat.files (each getDriveFileContent succeeds or throws, a
\* throw being caught inside the loop), the prompt, and callGemini(prompt).
\* None of them reads or writes the store, so they are one step.
CallGemini(h) ==
    LET rec == Did(Did(handlers[h], "readFiles"), "callGemini") IN
    /\ handlers[h].pc = "readFiles"
    /\ \E unreadable \in SUBSET (1..rec.chat.files), ok \in BOOLEAN :
         LET called == [rec EXCEPT
                          !.unreadable = unreadable,
                          !.sent = EventPrompt(
                                     EventFileContents(rec.chat.files, unreadable),
                                     rec.req.event.text)]
         IN  Set(h, IF ok THEN Goto([called EXCEPT !.aiResponse = "answer"], "createAI")
                          ELSE Goto(called, "catchFindChat"))
    /\ UNCHANGED <<vreq, vres, users, chats, messages, slack>>

AssistantRow(h, rec) ==
    [chatId |-> rec.chat.id, sender |-> "ai", text |-> rec.aiResponse,
     userId |-> "", slackTs |-> 0, syncedToSlack |-> FALSE, by |-> h]

\* prisma.message.create of the assistant message.
CreateAI(h) ==
    LET rec == Did(handlers[h], "createAI") IN
    /\ handlers[h].pc = "createAI"
    /\ \E ok \in BOOLEAN :
         IF ok
           THEN /\ messages' = Append(messages, AssistantRow(h, rec))
                /\ Set(h, Goto([rec EXCEPT !.aiMessage = Len(messages) + 1], "postAI"))
           ELSE /\ messages' = messages
                /\ Set(h, Goto(rec, "catchFindChat"))
    /\ UNCHANGED <<vreq, vres, users, chats, slack>>

Post(h, channel, text, thread_ts) ==
    [channel |-> channel, text |-> text, thread_ts |-> thread_ts,
     ts |-> PostTs(Len(slack.posts) + 1), by |-> h]

\* slackClient.chat.postMessage with the token the chat was loaded with;
\* Slack refuses a call without a token.
PostAI(h) ==
    LET rec == Did(handlers[h], "postAI") IN
    /\ handlers[h].pc = "postAI"
    /\ \E ok \in BOOLEAN :
         IF ok /\ rec.chat.ownerSlackAccessToken # ""
           THEN /\ slack' = [slack EXCEPT !.posts =
                       Append(@, Post(h, rec.chat.slackChannelId, "ai", rec.req.event.ts))]
                /\ Set(h, Goto([rec EXCEPT !.slackTs = PostTs(Len(slack.posts) + 1)],
                               "stampAI"))
           ELSE /\ slack' = slack
                /\ Set(h, Goto(rec, "catchFindChat"))
    /\ UNCHANGED <<vreq, vres, users, chats, messages>>

\* Mutant: the id is stored but the message is left unsynced.
StampedUnsynced(row, slackTs) == [row EXCEPT !.slackTs = slackTs]

\* data: { slackTs: slackResult.ts, syncedToSlack: true }
Stamped(row, slackTs) == [row EXCEPT !.slackTs = slackTs, !.syncedToSlack = TRUE]

\* prisma.message.update of the assistant message.
StampAI(h) ==
    LET rec == Did(handlers[h], "stampAI") IN
    /\ handlers[h].pc = "stampAI"
    /\ \E ok \in BOOLEAN :
         IF ok
           THEN /\ messages' = [messages EXCEPT ![rec.aiMessage] = Stamped(@, rec.slackTs)]
                /\ Set(h, Goto(Did(rec, "complete"), "done"))
           ELSE /\ messages' = messages
                /\ Set(h, Goto(rec, "catchFindChat"))
    /\ UNCHANGED <<vreq, vres, users, chats, slack>>

\* The catch block: the chat and its owner's bot token are read again.
CatchFindChat(h) ==
    LET rec == Did(handlers[h], "catchFindChat")
        found == ChatsByChannel(rec.req.event.channel)
        token == IF found = {} THEN ""
                 ELSE users[chats[CHOOSE c \in found : TRUE].ownerId].slackAccessToken
    IN  /\ handlers[h].pc = "catchFindChat"
        /\ Set(h, Goto(rec, IF token # "" THEN "catchPost" ELSE "done"))
        /\ UNCHANGED <<vreq, vres, users, chats, messages, slack>>

\* Mutant: a failing notice is not caught.
PcNoticeFailedUncaught == "crashed"

\* Where the handler goes when the notice cannot be posted: the inner catch
\* logs and the handler returns.
PcNoticeFailed == "done"

\* The error notice, in the thread of the message that triggered it.
CatchPost(h) ==
    LET rec == Did(handlers[h], "catchPost") IN
    /\ handlers[h].pc = "catchPost"
    /\ \E ok \in BOOLEAN :
         IF ok
           THEN /\ slack' = [slack EXCEPT !.posts =
                       Append(@, Post(h, rec.req.event.channel, "error", rec.req.event.ts))]
                /\ Set(h, Goto(Did(rec, "notice"), "done"))
           ELSE /\ slack' = slack
                /\ Set(h, Goto(rec, PcNoticeFailed))
    /\ UNCHANGED <<vreq, vres, users, chats, messages>>

\* POST /slack/commands: the middleware, then the immediate 200.
ReceiveCommand(h) ==
    /\ CanArrive(h)
    /\ \E r \in CommandRequests :
         LET rec == [handlers[h] EXCEPT !.req = r] IN
         IF ~Verdict(r).next
           THEN Set(h, Rejected(rec, r))
           ELSE Set(h, Goto(Acknowledge(rec), "cmdFindUser"))
    /\ UNCHANGED <<vreq, vres, users, chats, messages, slack>>

\* prisma.user.findUnique({ where: { slackUserId: user_id } })
CmdFindUser(h) ==
    LET rec == Did(handlers[h], "cmdFindUser")
        found == UsersBySlackId(rec.req.user_id)
    IN  /\ handlers[h].pc = "cmdFindUser"
        /\ Set(h, IF found = {} THEN Goto(rec, "cmdRespond")
                  ELSE Goto([rec EXCEPT !.senderUser = CHOOSE u \in found : TRUE],
                            IF rec.req.command = "/esme-chats"
                              THEN "cmdQuery" ELSE "cmdRespond"))
        /\ UNCHANGED <<vreq, vres, users, chats, messages, slack>>

\* prisma.chatShare.findMany or prisma.chat.findMany
CmdQuery(h) ==
    LET rec == Did(handlers[h], "cmdQuery") IN
    /\ handlers[h].pc = "cmdQuery"
    /\ Set(h, Goto(rec, "cmdRespond"))
    /\ UNCHANGED <<vreq, vres, users, chats, messages, slack>>

\* safeFetch(response_url, ...) with the answer; a throw goes to the catch.
CmdRespond(h) ==
    LET rec == Did(handlers[h], "cmdRespond") IN
    /\ handlers[h].pc = "cmdRespond"
    /\ \E ok \in BOOLEAN : Set(h, Goto(rec, IF ok THEN "done" ELSE "cmdCatchPost"))
    /\ UNCHANGED <<vreq, vres, users, chats, messages, slack>>

\* safeFetch(response_url, ...) with the error block, itself in a try.
CmdCatchPost(h) ==
    LET rec == Did(handlers[h], "cmdCatchPost") IN
    /\ handlers[h].pc = "cmdCatchPost"
    /\ Set(h, Goto(rec, "done"))
    /\ UNCHANGED <<vreq, vres, users, chats, messages, slack>>

\* POST /slack/interactions: the middleware, JSON.parse(req.body.payload),
\* and 200 whether the payload parsed or not.
ReceiveInteraction(h) ==
    /\ CanArrive(h)
    /\ \E r \in InteractionRequests :
         LET rec == [handlers[h] EXCEPT !.req = r] IN
         IF ~Verdict(r).next
           THEN Set(h, Rejected(rec, r))
           ELSE Set(h, Goto(Acknowledge(rec), "done"))
    /\ UNCHANGED <<vreq, vres, users, chats, messages, slack>>

\* POST /slack/disconnect by a signed-in user.
Disconnect(u) ==
    /\ users[u].slackAccessToken # ""
    /\ users' = [users EXCEPT ![u].slackAccessToken = "",
                              ![u].slackUserId = ""]
    /\ UNCHANGED <<vreq, vres, chats, messages, slack, handlers>>

\* Requests of all three kinds, and the owner disconnecting Slack.
NextWebhooks ==
    \/ \E h \in HandlerIds : ReceiveEvent(h, EventRequests)
    \/ \E h \in HandlerIds : FindChat(h)
    \/ \E h \in HandlerIds : FindSender(h)
    \/ \E h \in HandlerIds : FindExisting(h)
    \/ \E h \in HandlerIds : CreateHuman(h)
    \/ \E h \in HandlerIds : LoadOwner(h)
    \/ \E h \in HandlerIds : TokenFetch(h)
    \/ \E h \in HandlerIds : SaveToken(h)
    \/ \E h \in HandlerIds : CallGemini(h)
    \/ \E h \in HandlerIds : CreateAI(h)
    \/ \E h \in HandlerIds : PostAI(h)
    \/ \E h \in HandlerIds : StampAI(h)
    \/ \E h \in HandlerIds : CatchFindChat(h)
    \/ \E h \in HandlerIds : CatchPost(h)
    \/ \E h \in HandlerIds : ReceiveCommand(h)
    \/ \E h \in HandlerIds : CmdFindUser(h)
    \/ \E h \in HandlerIds : CmdQuery(h)
    \/ \E h \in HandlerIds : CmdRespond(h)
    \/ \E h \in HandlerIds : CmdCatchPost(h)
    \/ \E h \in HandlerIds : ReceiveInteraction(h)
    \/ \E u \in UserIds : Disconnect(u)

SpecWebhooks == InitWebhooks /\ [][NextWebhooks]_vars

\* Concurrent deliveries of message events.
NextPull ==
    \/ \E h \in HandlerIds : ReceiveEvent(h, PullRequests)
    \/ \E h \in HandlerIds : FindChat(h)
    \/ \E h \in HandlerIds : FindSender(h)
    \/ \E h \in HandlerIds : FindExisting(h)
    \/ \E h \in HandlerIds : CreateHuman(h)
    \/ \E h \in HandlerIds : LoadOwner(h)
    \/ \E h \in HandlerIds : TokenFetch(h)
    \/ \E h \in HandlerIds : SaveToken(h)
    \/ \E h \in HandlerIds : CallGemini(h)
    \/ \E h \in HandlerIds : CreateAI(h)
    \/ \E h \in HandlerIds : PostAI(h)
    \/ \E h \in HandlerIds : StampAI(h)
    \/ \E h \in HandlerIds : CatchFindChat(h)
    \/ \E h \in HandlerIds : CatchPost(h)

SpecPull == InitPull /\ [][NextPull]_vars

(***************************************************************************)
(* GET /chats/:id and getOrCreateSlackChannel.                             *)
(* In this part a channel id and a channel name are sequences of           *)
(* characters, and the chat has no channel when its slackChannelId is the  *)
(* empty sequence.  Slack keeps channel names unique in the workspace:     *)
(* conversations.create with a name in use fails (name_taken).             *)
(***************************************************************************)
MaxCalls == 2

SuffixLen == 8

MaxChannelNameLen == 80

TruncatedPrefixLen == 72

UpperCase ==
    <<"A", "B", "C", "D", "E", "F", "G", "H", "I", "J", "K", "L", "M",
      "N", "O", "P", "Q", "R", "S", "T", "U", "V", "W", "X", "Y", "Z">>

LowerCase ==
    <<"a", "b", "c", "d", "e", "f", "g", "h", "i", "j", "k", "l", "m",
      "n", "o", "p", "q", "r", "s", "t", "u", "v", "w", "x", "y", "z">>

\* name.toLowerCase(), on ASCII
ToLowerCase(s) ==
    [i \in 1..Len(s) |->
        IF \E k \in 1..26 : UpperCase[k] = s[i]
          THEN LowerCase[CHOOSE k \in 1..26 : UpperCase[k] = s[i]]
          ELSE s[i]]

\* The characters the class [a-z0-9-_] admits.
IsChannelChar(c) ==
    \/ \E k \in 1..26 : LowerCase[k] = c
    \/ IsDigit(c)
    \/ c = "-"
    \/ c = "_"

\* .replace(/[^a-z0-9-_]/g, "-")
ReplaceInvalid(s) == [i \in 1..Len(s) |-> IF IsChannelChar(s[i]) THEN s[i] ELSE "-"]

\* .replace(/-+/g, "-")
RECURSIVE CollapseDashes(_)
CollapseDashes(s) ==
    IF Len(s) <= 1 THEN s
    ELSE IF s[1] = "-" /\ s[2] = "-" THEN CollapseDashes(Tail(s))
    ELSE <<s[1]>> \o CollapseDashes(Tail(s))

\* .replace(/^-|-$/g, "")
TrimDash(s) ==
    LET t == IF s # <<>> /\ s[1] = "-" THEN Tail(s) ELSE s IN
    IF t # <<>> /\ t[Len(t)] = "-" THEN SubSeq(t, 1, Len(t) - 1) ELSE t

\* s.slice(-n)
LastChars(s, n) == IF Len(s) <= n THEN s ELSE SubSeq(s, Len(s) - n + 1, Len(s))

sanitizeChannelName(name, chatId) ==
    LET suffix == LastChars(chatId, SuffixLen)
        sanitized == <<"e", "s", "m", "e", "-">>
                       \o TrimDash(CollapseDashes(ReplaceInvalid(ToLowerCase(name))))
                       \o <<"-">> \o suffix
    IN  IF Len(sanitized) > MaxChannelNameLen
          THEN SubSeq(sanitized, 1, TruncatedPrefixLen) \o suffix
          ELSE sanitized

\* chat.id of the one chat, as characters.
ChatIdChars == <<"c", "k", "x", "9", "c", "h", "a", "t", "0", "0", "0", "1">>

ChatNames == {<<"Q", "3", " ", "&", " ", "A">>, <<"-", "r", "_", "1", "!">>}

\* Mutant: Slack gives every channel the id of the first.
ChannelIdReused(n) == <<"C", "1">>

\* The id Slack gives to the n-th channel of the workspace.
ChannelId(n) == <<"C">> \o NumberToString(n)

NameTaken(name) ==
    \/ name \in slack.taken
    \/ \E i \in 1..Len(slack.channels) :
         slack.channels[i].name = name /\ slack.channels[i].state # "gone"

NoSnapshot == [id |-> "", name |-> <<>>, slackChannelId |-> <<>>, messages |-> 0]

\* One GET /chats/:id in flight.  `created` is what getOrCreateSlackChannel
\* returned, if it returned; `res` is the response, with the channel id of
\* the chat in it.
IdleCall ==
    [pc |-> "idle", chatId |-> "", userToken |-> "", chat |-> NoSnapshot,
     channelName |-> <<>>, created |-> <<>>, toSync |-> <<>>, slackTs |-> 0,
     res |-> [status |-> 0, slackChannelId |-> <<>>], trace |-> <<>>]

\* A chat without a channel, with no message or with one that Slack has not
\* seen; its owner has connected Slack or has not.
InitChannel ==
    /\ vreq = Idle
    /\ vres = Pending
    /\ \E token \in {"", "xoxb"} :
         users = [u \in UserIds |->
                    [slackUserId |-> "S1", slackAccessToken |-> token,
                     refreshToken |-> "rt", accessToken |-> "at0"]]
    /\ \E name \in ChatNames :
         chats = [c \in ChatIds |->
                    [ownerId |-> "u1", name |-> name, slackChannelId |-> <<>>,
                     slackChannelName |-> <<>>, files |-> 1]]
    /\ messages \in
         {<<>>, <<[chatId |-> "c1", sender |-> "user", text |-> "hi", userId |-> "u1",
                   slackTs |-> 0, syncedToSlack |-> FALSE, by |-> 0]>>}
    /\ slack = [posts |-> <<>>, channels |-> <<>>, taken |-> {}]
    /\ handlers = [h \in 1..MaxCalls |-> IdleCall]

Snapshot(c) ==
    IF c \in DOMAIN chats
      THEN [id |-> c, name |-> chats[c].name,
            slackChannelId |-> chats[c].slackChannelId,
            messages |-> Cardinality({i \in 1..Len(messages) : messages[i].chatId = c})]
      ELSE NoSnapshot

\* res.json({ chat }) with the chat the handler holds.
Respond(rec) ==
    Goto([rec EXCEPT !.res = [status |-> 200,
                              slackChannelId |-> rec.chat.slackChannelId]], "done")

\* Mutant: the route enters the channel code whoever reads.
NeedsChannelAnyone(userToken, chat) == chat.slackChannelId = <<>>

\* The guard of the route on its own reading of the chat.
NeedsChannel(userToken, chat) == userToken # "" /\ chat.slackChannelId = <<>>

\* prisma.chat.findFirst({ where: { id, ownerId } }), 404, and the guard.
GetChat(h) ==
    /\ CanArrive(h)
    /\ \E c \in ChatIds \cup {"c9"} :
         LET rec == Did([handlers[h] EXCEPT !.chatId = c,
                             !.userToken = users["u1"].slackAccessToken], "findFirst")
         IN  IF c \notin DOMAIN chats
               THEN Set(h, Goto([rec EXCEPT !.res.status = 404], "done"))
             ELSE LET got == [rec EXCEPT !.chat = Snapshot(c)] IN
                  IF NeedsChannel(got.userToken, got.chat)
                    THEN Set(h, Goto(got, "create"))
                    ELSE Set(h, Respond(got))
    /\ UNCHANGED <<vreq, vres, users, chats, messages, slack>>

\* Mutant: the topic is set before the binding is written, which it then
\* never is.
PcAfterCreateTopicFirst == "setTopic"

\* What follows a conversations.create that Slack accepted.
PcAfterCreate == "update"

\* getOrCreateSlackChannel up to client.conversations.create: the early
\* return on the chat it was given, the name, and the call.  A throw is
\* logged, thrown again and caught by the route, which answers with the
\* chat it holds.
ConversationsCreate(h) ==
    LET rec == handlers[h]
        name == sanitizeChannelName(rec.chat.name, ChatIdChars)
    IN  /\ rec.pc = "create"
        /\ IF rec.chat.slackChannelId # <<>>
             THEN /\ slack' = slack
                  /\ Set(h, Goto([rec EXCEPT !.created = rec.chat.slackChannelId],
                                 "reload"))
           ELSE \E ok \in BOOLEAN :
                  IF ok /\ ~NameTaken(name)
                    THEN /\ slack' = [slack EXCEPT !.channels =
                                Append(@, [id |-> ChannelId(Len(@) + 1), name |-> name,
                                           topic |-> "", state |-> "active",
                                           by |-> h])]
                         /\ Set(h, Goto([Did(rec, "conversations.create")
                                           EXCEPT !.channelName = name,
                                                  !.created = ChannelId(Len(slack.channels) + 1)],
                                        PcAfterCreate))
                    ELSE /\ slack' = slack
                         /\ Set(h, Respond(Did(rec, IF NameTaken(name) THEN "name_taken"
                                                     ELSE "conversations.create failed")))
        /\ UNCHANGED <<vreq, vres, users, chats, messages>>

\* Mutant: the update keeps a channel name that is already there.
BoundKeepingName(row, channelId, channelName) ==
    [row EXCEPT !.slackChannelId = channelId,
                !.slackChannelName = IF @ = <<>> THEN channelName ELSE @]

\* data: { slackChannelId: channelId, slackChannelName: channelName }, one
\* UPDATE statement.
Bound(row, channelId, channelName) ==
    [row EXCEPT !.slackChannelId = channelId, !.slackChannelName = channelName]

\* prisma.chat.update({ data: { slackChannelId, slackChannelName } }); it
\* throws when the row is gone.
ChatUpdate(h) ==
    LET rec == Did(handlers[h], "chat.update") IN
    /\ handlers[h].pc = "update"
    /\ IF rec.chat.id \in DOMAIN chats
         THEN /\ chats' = [chats EXCEPT ![rec.chat.id] =
                                Bound(@, rec.created, rec.channelName)]
              /\ Set(h, Goto(rec, "setTopic"))
         ELSE /\ chats' = chats
              /\ Set(h, Respond(rec))
    /\ UNCHANGED <<vreq, vres, users, messages, slack>>

ChannelIndex(id) == CHOOSE i \in 1..Len(slack.channels) : slack.channels[i].id = id

\* client.conversations.setTopic
SetTopic(h) ==
    LET rec == Did(handlers[h], "setTopic") IN
    /\ handlers[h].pc = "setTopic"
    /\ \E ok \in BOOLEAN :
         IF ok
           THEN /\ slack' = [slack EXCEPT !.channels[ChannelIndex(rec.created)].topic = "chat"]
                /\ Set(h, Goto(rec, "init"))
           ELSE /\ slack' = slack
                /\ Set(h, Respond(rec))
    /\ UNCHANGED <<vreq, vres, users, chats, messages>>

\* postChatInitMessage: prisma.chatFile.findMany, then chat.postMessage.
PostChatInitMessage(h) ==
    LET rec == Did(handlers[h], "init") IN
    /\ handlers[h].pc = "init"
    /\ \E ok \in BOOLEAN :
         IF ok
           THEN /\ slack' = [slack EXCEPT !.posts = Append(@, Post(h, rec.created, "init", 0))]
                /\ Set(h, Goto(rec, "reload"))
           ELSE /\ slack' = slack
                /\ Set(h, Respond(rec))
    /\ UNCHANGED <<vreq, vres, users, chats, messages>>

\* The route reads the chat again and goes on to syncMessagesToSlack when
\* the chat has messages.  When the row is gone the read gives null, which
\* the route dereferences once inside its try and once after it.
ReloadChat(h) ==
    LET rec == [Did(handlers[h], "findUnique") EXCEPT !.chat = Snapshot(@.id)] IN
    /\ handlers[h].pc = "reload"
    /\ Set(h, IF rec.chat = NoSnapshot
                THEN Goto([Did(rec, "unhandled") EXCEPT !.res.status = 500], "done")
              ELSE IF rec.chat.messages > 0 THEN Goto(rec, "syncFind")
              ELSE Respond(rec))
    /\ UNCHANGED <<vreq, vres, users, chats, messages, slack>>

RECURSIVE Ascending(_)
Ascending(set) ==
    IF set = {} THEN <<>>
    ELSE LET least == CHOOSE i \in set : \A j \in set : i <= j IN
         <<least>> \o Ascending(set \ {least})

\* Mutant: every message of the chat is taken.
WhereAnyMessage(c) == {i \in 1..Len(messages) : messages[i].chatId = c}

\* where: { chatId: chat.id, syncedToSlack: false }
WhereUnsynced(c) ==
    {i \in 1..Len(messages) : messages[i].chatId = c /\ ~messages[i].syncedToSlack}

\* syncMessagesToSlack: prisma.message.findMany({ syncedToSlack: false })
SyncFind(h) ==
    LET found == Ascending(WhereUnsynced(handlers[h].chat.id))
        rec == [Did(handlers[h], "findMany") EXCEPT !.toSync = found]
    IN  /\ handlers[h].pc = "syncFind"
        /\ Set(h, IF found = <<>> THEN Respond(rec) ELSE Goto(rec, "syncPost"))
        /\ UNCHANGED <<vreq, vres, users, chats, messages, slack>>

\* After a message of the loop: the next one, or the response.
NextToSync(rec) ==
    LET rest == [rec EXCEPT !.toSync = Tail(@)] IN
    IF rest.toSync = <<>> THEN Respond(rest) ELSE Goto(rest, "syncPost")

\* syncMessagesToSlack: chat.postMessage of one message; a throw is caught
\* in the loop, which goes on.
SyncPost(h) ==
    LET rec == Did(handlers[h], "syncPost") IN
    /\ handlers[h].pc = "syncPost"
    /\ \E ok \in BOOLEAN :
         IF ok
           THEN /\ slack' = [slack EXCEPT !.posts =
                       Append(@, Post(h, rec.chat.slackChannelId, "history", 0))]
                /\ Set(h, Goto([rec EXCEPT !.slackTs = PostTs(Len(slack.posts) + 1)],
                               "syncStamp"))
           ELSE /\ slack' = slack
                /\ Set(h, NextToSync(rec))
    /\ UNCHANGED <<vreq, vres, users, chats, messages>>

\* syncMessagesToSlack: prisma.message.update({ syncedToSlack: true, slackTs });
\* it throws when the row went with its chat, and the loop goes on.
SyncStamp(h) ==
    LET rec == Did(handlers[h], "syncStamp") IN
    /\ handlers[h].pc = "syncStamp"
    /\ messages' = [messages EXCEPT ![Head(rec.toSync)] =
                       IF @.chatId = "" THEN @ ELSE Stamped(@, rec.slackTs)]
    /\ Set(h, NextToSync(rec))
    /\ UNCHANGED <<vreq, vres, users, chats, slack>>

\* The owner opens the chat, possibly in two tabs at once.
NextChannel ==
    \/ \E h \in HandlerIds : GetChat(h)
    \/ \E h \in HandlerIds : ConversationsCreate(h)
    \/ \E h \in HandlerIds : ChatUpdate(h)
    \/ \E h \in HandlerIds : SetTopic(h)
    \/ \E h \in HandlerIds : PostChatInitMessage(h)
    \/ \E h \in HandlerIds : ReloadChat(h)
    \/ \E h \in HandlerIds : SyncFind(h)
    \/ \E h \in HandlerIds : SyncPost(h)
    \/ \E h \in HandlerIds : SyncStamp(h)

SpecChannel == InitChannel /\ [][NextChannel]_vars

(***************************************************************************)
(* Claims on verifySlackRequest, checked under SpecVerify.                 *)
(***************************************************************************)
Verified == vres # Pending

\* The timestamp header is a number at most 300 s from the current second.
HeaderInWindow ==
    /\ vreq.timestampHeader # <<>>
    /\ ~ToNumber(vreq.timestampHeader).nan
    /\ LET t == ToNumber(vreq.timestampHeader).val
           cur == vreq.nowMs \div 1000
       IN  t - cur <= 300 /\ cur - t <= 300

\* The signature header is the one computed with the server's secret over
\* the timestamp and the body that arrived.
SignatureMatchesRequest ==
    /\ vreq.tamper = "none"
    /\ vreq.signedKey = vreq.signingSecret
    /\ vreq.signedBody = vreq.rawBody
    /\ ~ToNumber(vreq.timestampHeader).nan
    /\ vreq.signedTs = ToNumber(vreq.timestampHeader).val

\* The body, the secret or the signature header is not the one the signature
\* was computed with.
SomethingDiffers ==
    \/ vreq.rawBody # vreq.signedBody
    \/ vreq.signingSecret # vreq.signedKey
    \/ vreq.tamper # "none"

\* C3 as stated: a request with the matching signature and a timestamp in
\* the window is accepted, whatever its body, and a request whose body,
\* secret or signature header differs from the signed ones is rejected.
C3_SignatureDecidesAcceptance ==
    Verified =>
        /\ (SignatureMatchesRequest /\ HeaderInWindow) => vres.next
        /\ SomethingDiffers => ~vres.next

\* C3 amended: the same, the acceptance being promised for a non-empty raw
\* body only (the verifier answers 400 "Missing rawBody" for an empty one).
C3_SignatureDecidesAcceptanceNonEmptyBody ==
    Verified =>
        /\ (SignatureMatchesRequest /\ HeaderInWindow /\ vreq.rawBody # <<>>)
                => vres.next
        /\ SomethingDiffers => ~vres.next

\* A correctly signed request with a body was verified and let through.
C3_Witness ==
    /\ Verified
    /\ SignatureMatchesRequest
    /\ vreq.rawBody # <<>>
    /\ vres.next

\* C4: a request whose timestamp is more than 300 s before or after the
\* current second is rejected, correct signature or not; one at 300 s or
\* less is not rejected as too old; a request without the signature header
\* or without the timestamp header is rejected.
C4_ReplayWindow ==
    Verified =>
        /\ (vreq.tamper = "absent" \/ vreq.timestampHeader = <<>>) => ~vres.next
        /\ ( /\ vreq.timestampHeader # <<>>
             /\ ~ToNumber(vreq.timestampHeader).nan
             /\ ~HeaderInWindow ) => ~vres.next
        /\ HeaderInWindow => vres.text # "Request too old"

\* A request signed correctly, one second outside the window, was rejected
\* as too old.
C4_Witness ==
    /\ Verified
    /\ SignatureMatchesRequest
    /\ vreq.rawBody # <<>>
    /\ ToNumber(vreq.timestampHeader).val - (vreq.nowMs \div 1000) = 301
    /\ vres.text = "Request too old"

(***************************************************************************)
(* Claims on the webhook endpoints.                                        *)
(***************************************************************************)
Range(seq) == {seq[i] : i \in 1..Len(seq)}

Occurrences(seq, x) == Cardinality({i \in 1..Len(seq) : seq[i] = x})

MessagesWithTs(t) == {i \in 1..Len(messages) : messages[i].slackTs = t}

MessagesBy(h, sender) ==
    {i \in 1..Len(messages) : messages[i].by = h /\ messages[i].sender = sender}

PostsBy(h, text) ==
    {i \in 1..Len(slack.posts) : slack.posts[i].by = h /\ slack.posts[i].text = text}

Finished(h) == handlers[h].pc = "done"

\* Handlers of message events that got as far as the duplicate check.
Deliveries(t) ==
    {h \in HandlerIds : /\ handlers[h].req.ep = "events"
                        /\ handlers[h].req.event.ts = t
                        /\ "findExisting" \in Range(handlers[h].trace)}

\* C1: once every handler of an event id delivered two times or more has
\* finished, exactly one Message carries that id.
C1_OneMessagePerDeliveredId ==
    \A t \in EventTs :
        (Cardinality(Deliveries(t)) >= 2 /\ \A h \in Deliveries(t) : Finished(h))
            => Cardinality(MessagesWithTs(t)) = 1

\* The request is no handshake and verifySlackRequest turns it down.
TurnedDown(h) ==
    LET a == handlers[h].req.auth IN
    /\ handlers[h].req.ep \in {"events", "commands", "interactions"}
    /\ handlers[h].req.bodyType # "url_verification"
    /\ ~verifySlackRequest(SignatureHeader(a), a.timestampHeader, a.signingSecret,
                           a.rawBody, a.nowMs).next

\* C5: a request that is no handshake and that the verifier rejects is
\* answered 400 or 500 and does nothing else: no read or write of the store,
\* no call to Google, Gemini or Slack, no Message and no post of its own.
C5_RejectedRequestHasNoEffect ==
    \A h \in HandlerIds :
        TurnedDown(h) =>
            /\ Finished(h)
            /\ handlers[h].res.status \in {400, 500}
            /\ handlers[h].trace = <<>>
            /\ MessagesBy(h, "user") = {} /\ MessagesBy(h, "ai") = {}
            /\ \A i \in 1..Len(slack.posts) : slack.posts[i].by # h

\* A message event with an altered signature was answered 400.
C5_Witness ==
    \E h \in HandlerIds :
        /\ TurnedDown(h)
        /\ handlers[h].req.ep = "events"
        /\ ~Ignored(handlers[h].req.event)
        /\ handlers[h].res.status = 400

\* A verified, non-handshake request to the events endpoint.
VerifiedEvent(h) ==
    /\ handlers[h].req.ep = "events"
    /\ handlers[h].req.bodyType # "url_verification"
    /\ ~TurnedDown(h)

\* C6: for a verified event the empty 200 response is the first thing the
\* handler does, before any lookup, write or call, and it is the response
\* in every later state, whatever the processing runs into.
C6_AcknowledgedFirst ==
    \A h \in HandlerIds :
        VerifiedEvent(h) =>
            /\ handlers[h].res = [status |-> 200, text |-> ""]
            /\ handlers[h].trace # <<>>
            /\ handlers[h].trace[1] = "ack"
            /\ Occurrences(handlers[h].trace, "ack") = 1

\* A verified event whose processing failed after the acknowledgment.
C6_Witness ==
    \E h \in HandlerIds :
        /\ VerifiedEvent(h)
        /\ Finished(h)
        /\ "catchFindChat" \in Range(handlers[h].trace)
        /\ handlers[h].res.status = 200

\* C7: every assistant Message the pull path created comes, in the store,
\* after the human Message of the same event, which carries the event's id.
C7_HumanBeforeAssistant ==
    \A i \in 1..Len(messages) :
        messages[i].sender = "ai" =>
            \E j \in 1..(i - 1) :
                /\ messages[j].sender = "user"
                /\ messages[j].by = messages[i].by
                /\ messages[j].chatId = messages[i].chatId
                /\ messages[j].slackTs = handlers[messages[i].by].req.event.ts

\* Two deliveries have each stored an assistant Message.
C7_Witness ==
    \E i, j \in 1..Len(messages) :
        /\ i # j
        /\ messages[i].sender = "ai"
        /\ messages[j].sender = "ai"

\* What a handler does, in order, when nothing fails.
HappyPath ==
    <<"ack", "findChat", "findSender", "findExisting", "createHuman",
      "loadOwner", "tokenFetch", "saveToken", "readFiles", "callGemini",
      "createAI", "postAI", "stampAI", "complete">>

\* The handler stored the human message and none of its later calls failed.
NothingFailed(h) ==
    /\ Finished(h)
    /\ "createHuman" \in Range(handlers[h].trace)
    /\ "catchFindChat" \notin Range(handlers[h].trace)

\* C8: when no call fails, the handler stores the human Message with the
\* event's id and synced, then calls the LLM once, then stores the assistant
\* Message, then posts once in the event's thread, then stamps the post's id
\* on the assistant Message with synced = true; it does all that in this
\* order and posts nothing else.
C8_HappyPathOrder ==
    \A h \in HandlerIds :
        NothingFailed(h) =>
            LET rec == handlers[h] IN
            /\ rec.trace = HappyPath
            /\ \E i \in MessagesBy(h, "user"), p \in PostsBy(h, "ai") :
                 /\ MessagesBy(h, "user") = {i}
                 /\ messages[i].slackTs = rec.req.event.ts
                 /\ messages[i].syncedToSlack
                 /\ MessagesBy(h, "ai") = {rec.aiMessage}
                 /\ i < rec.aiMessage
                 /\ PostsBy(h, "ai") = {p}
                 /\ slack.posts[p].channel = rec.req.event.channel
                 /\ slack.posts[p].thread_ts = rec.req.event.ts
                 /\ messages[rec.aiMessage].slackTs = slack.posts[p].ts
                 /\ messages[rec.aiMessage].syncedToSlack
            /\ PostsBy(h, "error") = {}

\* Two deliveries of one event have both run to the end without a failure.
C8_Witness ==
    \E h, g \in HandlerIds :
        /\ h # g
        /\ NothingFailed(h)
        /\ NothingFailed(g)

\* The handler of an accepted message whose chat owner has no refresh token.
NoRefreshToken(h) ==
    /\ VerifiedEvent(h)
    /\ Finished(h)
    /\ "loadOwner" \in Range(handlers[h].trace)
    /\ users[handlers[h].chat.ownerId].refreshToken = ""

NoAnswer(h) ==
    /\ MessagesBy(h, "ai") = {}
    /\ PostsBy(h, "ai") = {}
    /\ "tokenFetch" \notin Range(handlers[h].trace)
    /\ "callGemini" \notin Range(handlers[h].trace)

\* The error notices of h: in the event's channel and thread.
NoticesInThread(h) ==
    \A p \in PostsBy(h, "error") :
        /\ slack.posts[p].channel = handlers[h].req.event.channel
        /\ slack.posts[p].thread_ts = handlers[h].req.event.ts

OwnerHasBotToken(h) == users[handlers[h].chat.ownerId].slackAccessToken # ""

Failed(h) ==
    /\ VerifiedEvent(h)
    /\ Finished(h)
    /\ "catchFindChat" \in Range(handlers[h].trace)

HumanMessageStored(h) ==
    \E i \in MessagesBy(h, "user") :
        messages[i].slackTs = handlers[h].req.event.ts

\* C10 as stated: after a failure the handler calls Slack once with the
\* error notice, in the event's thread; nothing is thrown out of the
\* handler, also when that call fails; the human Message is still stored.
C10_FailureAlwaysAttemptsNotice ==
    \A h \in HandlerIds :
        /\ handlers[h].pc # "crashed"
        /\ Failed(h) =>
             /\ Occurrences(handlers[h].trace, "catchPost") = 1
             /\ NoticesInThread(h)
             /\ HumanMessageStored(h)

\* C10: after a failure the handler calls Slack at most once with the error
\* notice, in the event's thread, and does call it when the chat's owner
\* still has a bot token; nothing is thrown out of the handler, also when
\* that call fails; the human Message is still stored.
C10_FailureAttemptsNoticeWithBotToken ==
    \A h \in HandlerIds :
        /\ handlers[h].pc # "crashed"
        /\ Failed(h) =>
             /\ Occurrences(handlers[h].trace, "catchPost") <= 1
             /\ OwnerHasBotToken(h) => "catchPost" \in Range(handlers[h].trace)
             /\ Cardinality(PostsBy(h, "error")) <= 1
             /\ NoticesInThread(h)
             /\ HumanMessageStored(h)

\* The answer could not be posted, and neither could the notice.
C10_Witness ==
    \E h \in HandlerIds :
        /\ Failed(h)
        /\ "postAI" \in Range(handlers[h].trace)
        /\ "catchPost" \in Range(handlers[h].trace)
        /\ "notice" \notin Range(handlers[h].trace)

(***************************************************************************)
(* Claims on the channel of a chat.                                        *)
(***************************************************************************)
\* A finished GET of the chat by its owner, Slack connected, in which no
\* call to Slack failed for a reason of Slack's own.
EnsureChannelCall(h) ==
    /\ Finished(h)
    /\ handlers[h].chatId \in ChatIds
    /\ handlers[h].userToken # ""
    /\ "conversations.create failed" \notin Range(handlers[h].trace)

\* C2: of two calls for a chat that had no channel, run one after the other
\* or at once, one creates the channel and the binding; the other creates
\* nothing and returns the same channel id; Slack holds one channel and the
\* chat is bound to it.
C2_EnsureChannelIdempotent ==
    \A h, g \in HandlerIds :
        (h # g /\ EnsureChannelCall(h) /\ EnsureChannelCall(g)
               /\ "chat.update" \in Range(handlers[h].trace)) =>
            /\ Len(slack.channels) = 1
            /\ chats[handlers[h].chatId].slackChannelId = handlers[h].created
            /\ "chat.update" \notin Range(handlers[g].trace)
            /\ handlers[g].res.slackChannelId = handlers[h].created

(***************************************************************************)
(* Claims on what the pull path leaves behind and on what it discards.     *)
(***************************************************************************)
\* C11: after a failure of the token refresh, the generation, or the saving
\* or posting of the answer, the human Message of the event is stored and
\* no assistant Message of the event is.
C11_FailureLeavesOnlyHumanMessage ==
    \A h \in HandlerIds :
        Failed(h) => (HumanMessageStored(h) /\ MessagesBy(h, "ai") = {})

\* Nothing but the acknowledgment: no lookup, no Message, no call, no post.
OnlyAcknowledged(h) ==
    /\ Finished(h)
    /\ handlers[h].trace = <<"ack">>
    /\ MessagesBy(h, "user") = {} /\ MessagesBy(h, "ai") = {}
    /\ \A i \in 1..Len(slack.posts) : slack.posts[i].by # h

\* A direct message, a thread reply, a bot message or one with a subtype.
ExcludedShape(event) ==
    \/ event.channel_type = "im"
    \/ event.thread_ts # 0
    \/ event.bot_id # ""
    \/ event.subtype # ""

PlainShape(event) ==
    /\ event.present
    /\ event.type = "message"
    /\ event.thread_ts = 0
    /\ event.bot_id = ""
    /\ event.subtype = ""
    /\ event.channel_type \in {"group", "channel"}

AfterDuplicateCheck ==
    {"createHuman", "loadOwner", "tokenFetch", "saveToken", "readFiles",
     "callGemini", "createAI", "postAI", "stampAI", "catchFindChat", "catchPost"}

\* The event left nothing: no Message, no refresh, no LLM call, no post.
Discarded(h) ==
    /\ Finished(h)
    /\ Range(handlers[h].trace) \cap AfterDuplicateCheck = {}
    /\ MessagesBy(h, "user") = {} /\ MessagesBy(h, "ai") = {}
    /\ \A i \in 1..Len(slack.posts) : slack.posts[i].by # h
    /\ handlers[h].driveAccessToken = ""

\* A verified message of the accepted shape whose lookups up to `pc` are done.
AcceptedShapePast(h, pcs) ==
    /\ VerifiedEvent(h)
    /\ ~Ignored(handlers[h].req.event)
    /\ handlers[h].pc \notin {"idle"} \cup pcs

\* C13: an event of the accepted shape whose channel is bound to no chat,
\* or for whose sender the lookup found no user, is discarded: no Message,
\* no token refresh, no LLM call, no post.
C13_UnmappedEventDiscarded ==
    \A h \in HandlerIds :
        /\ (AcceptedShapePast(h, {"findChat"})
              /\ ChatsByChannel(handlers[h].req.event.channel) = {})
             => (Discarded(h) /\ handlers[h].trace = <<"ack", "findChat">>)
        /\ (AcceptedShapePast(h, {"findChat", "findSender"})
              /\ handlers[h].chat # NoChat
              /\ handlers[h].senderUser = "")
             => (Discarded(h) /\ handlers[h].trace = <<"ack", "findChat", "findSender">>)

\* A message from a sender no user is linked to, in a mapped channel.
C13_Witness ==
    \E h \in HandlerIds :
        /\ AcceptedShapePast(h, {"findChat", "findSender"})
        /\ handlers[h].chat # NoChat
        /\ UsersBySlackId(handlers[h].req.event.user) = {}
        /\ handlers[h].senderUser = ""
        /\ Discarded(h)

\* The duplicate check of h runs while a Message has the event's id.
DuplicateCheckFinds(h) ==
    /\ handlers[h].pc = "findExisting"
    /\ handlers'[h] # handlers[h]
    /\ MessagesWithTs(handlers[h].req.event.ts) # {}

\* The handler stopped at the duplicate check.
StoppedAsDuplicate(h) ==
    /\ Finished(h)
    /\ handlers[h].trace = <<"ack", "findChat", "findSender", "findExisting">>

\* C14: when the duplicate check runs while a Message carries the event's
\* id, the handler stops there and changes nothing in the store or in
\* Slack; a handler that stopped there has created no Message, refreshed no
\* token, called no LLM and posted nothing, and stays stopped.
C14_DuplicateDiscarded ==
    /\ [][\A h \in HandlerIds :
            /\ DuplicateCheckFinds(h) =>
                 /\ handlers'[h].pc = "done"
                 /\ handlers'[h].trace = Append(handlers[h].trace, "findExisting")
                 /\ UNCHANGED <<users, chats, messages, slack>>
            /\ Finished(h) => handlers'[h] = handlers[h]]_vars
    /\ [](\A h \in HandlerIds : StoppedAsDuplicate(h) => Discarded(h))

\* The first delivery failed after it stored the human Message, and the
\* second delivery was stopped by the duplicate check.
C14_Witness ==
    \E h, g \in HandlerIds :
        /\ h # g
        /\ handlers[h].req.event.ts = handlers[g].req.event.ts
        /\ Failed(g)
        /\ StoppedAsDuplicate(h)
        /\ Discarded(h)

(***************************************************************************)
(* PATCH /chats/:id with renameSlackChannelForChat and DELETE /chats/:id   *)
(* with archiveSlackChannelForChat (services/slackChatSync.js).  The two   *)
(* functions are also called on their own.  Names and channel ids are      *)
(* sequences of characters, the empty sequence standing for null.  Slack   *)
(* answers a rename or an archive by the state of its workspace, or with   *)
(* an error of its own ("other").                                          *)
(***************************************************************************)
MaxOps == 2

\* sanitizeChannelName of services/slackChatSync.js
sanitizeChannelNameForSync(name, chatId) ==
    LET suffix == LastChars(chatId, SuffixLen)
        given == IF name = <<>> THEN <<"c", "h", "a", "t">> ELSE name
        sanitized == <<"e", "s", "m", "e", "-">>
                       \o TrimDash(CollapseDashes(ReplaceInvalid(ToLowerCase(given))))
                       \o <<"-">> \o suffix
    IN  IF Len(sanitized) > MaxChannelNameLen
          THEN SubSeq(sanitized, 1, TruncatedPrefixLen) \o <<"-">> \o suffix
          ELSE sanitized

\* Mutant: the second attempt asks for the same name again.
FallbackSourceSame(name) == name

\* `${chat.name}-1`
FallbackSource(name) == name \o <<"-", "1">>

\* s.trim(), on spaces
RECURSIVE Trim(_)
Trim(s) ==
    IF s = <<>> THEN s
    ELSE IF s[1] = " " THEN Trim(Tail(s))
    ELSE IF s[Len(s)] = " " THEN Trim(SubSeq(s, 1, Len(s) - 1))
    ELSE s

\* The name of the chat before any request.
FirstName == <<"Q", "3">>

\* req.body.name: a new name (with spaces around it), one that differs from
\* the current one only where the channel name does not, the current one,
\* a blank one, and none.
BodyNames == {<<" ", "R", "&", "D", " ">>, <<"q", "3">>, FirstName, <<" ">>, <<>>}

OwnChannel == ChannelId(1)

\* Channels of other people in the workspace, by name.
ForeignNames ==
    {{},
     {sanitizeChannelNameForSync(<<"R", "&", "D">>, ChatIdChars)},
     {sanitizeChannelNameForSync(<<"R", "&", "D">>, ChatIdChars),
      sanitizeChannelNameForSync(FallbackSource(<<"R", "&", "D">>), ChatIdChars)}}

NoResult == [ok |-> FALSE, reason |-> "pending", changed |-> FALSE, channelName |-> <<>>]

Result(ok, reason, changed, channelName) ==
    [ok |-> ok, reason |-> reason, changed |-> changed, channelName |-> channelName]

NoRow == [found |-> FALSE, name |-> <<>>, slackChannelId |-> <<>>,
          slackChannelName |-> <<>>, ownerToken |-> ""]

\* One request, or one call of a function of slackChatSync.js, in flight.
\* `existing` is what the route read, `chat` what the function read; `after`
\* is the set of requests that had finished when this one began; `calls`
\* are the calls the function made to Slack, each with Slack's answer.
IdleOp ==
    [pc |-> "idle", kind |-> "", bodyName |-> <<>>, existing |-> NoRow,
     nameChanged |-> FALSE, chat |-> NoRow, desiredName |-> <<>>,
     result |-> NoResult, after |-> {}, calls |-> <<>>,
     chatId |-> "", userToken |-> "", channelName |-> <<>>, created |-> <<>>,
     toSync |-> <<>>, slackTs |-> 0,
     res |-> [status |-> 0, slackChannelId |-> <<>>], trace |-> <<>>]

\* The chat has its channel (active, archived in Slack, or gone from the
\* workspace) or has none; its owner has a bot token or has none.
InitLifecycle ==
    /\ vreq = Idle
    /\ vres = Pending
    /\ messages \in
         {<<>>, <<[chatId |-> "c1", sender |-> "user", text |-> "hi", userId |-> "u1",
                   slackTs |-> 0, syncedToSlack |-> FALSE, by |-> 0]>>}
    /\ \E token \in {"", "xoxb"} :
         users = [u \in UserIds |->
                    [slackUserId |-> "S1", slackAccessToken |-> token,
                     refreshToken |-> "rt", accessToken |-> "at0"]]
    /\ \E state \in {"none", "active", "archived", "gone"}, foreign \in ForeignNames :
         /\ chats = [c \in ChatIds |->
                      [ownerId |-> "u1", name |-> FirstName,
                       slackChannelId |-> IF state # "none" THEN OwnChannel ELSE <<>>,
                       slackChannelName |->
                          IF state # "none"
                            THEN sanitizeChannelName(FirstName, ChatIdChars) ELSE <<>>,
                       files |-> 1]]
         /\ slack = [posts |-> <<>>,
                     channels |->
                       (IF state = "none" THEN <<>>
                        ELSE <<[id |-> OwnChannel,
                                name |-> sanitizeChannelName(FirstName, ChatIdChars),
                                topic |-> "chat", state |-> state, by |-> 0]>>),
                     taken |-> foreign]
    /\ handlers = [h \in 1..MaxOps |-> IdleOp]

\* The row of the chat with its owner, as findUnique / findFirst returns it.
Row(c) ==
    IF c \in DOMAIN chats
      THEN [found |-> TRUE, name |-> chats[c].name,
            slackChannelId |-> chats[c].slackChannelId,
            slackChannelName |-> chats[c].slackChannelName,
            ownerToken |-> users[chats[c].ownerId].slackAccessToken]
      ELSE NoRow

Begin(h, kind) ==
    [handlers[h] EXCEPT !.kind = kind,
                        !.after = {g \in HandlerIds : handlers[g].pc = "done"}]

\* Mutant: DELETE gives up when the archive did not succeed.
ReturnUnlessFailed(rec, result) ==
    LET got == [rec EXCEPT !.result = result] IN
    CASE rec.kind = "patch" -> Goto([got EXCEPT !.res.status = 200], "done")
      [] rec.kind = "delete" ->
           IF result.ok THEN Goto(got, "deleteRow")
           ELSE Goto([got EXCEPT !.res.status = 500], "done")
      [] OTHER -> Goto(got, "done")

\* The function returns: the route that called it goes on, without looking
\* at the result.
Return(rec, result) ==
    LET got == [rec EXCEPT !.result = result] IN
    CASE rec.kind = "patch" -> Goto([got EXCEPT !.res.status = 200], "done")
      [] rec.kind = "delete" -> Goto(got, "deleteRow")
      [] OTHER -> Goto(got, "done")

\* An await of the route throws and nothing catches it.
Unhandled(rec) == Goto([Did(rec, "unhandled") EXCEPT !.res.status = 500], "done")

\* Mutant: every name in the body counts as a change.
NameChangedWhenGiven(name, trimmed, existing) == name # <<>>

\* typeof req.body?.name === "string" and trimmed !== existing.name
NameChanged(name, trimmed, existing) == name # <<>> /\ trimmed # existing.name

\* PATCH /chats/:id: prisma.chat.findFirst, 404, the name of the body, 400.
PatchFind(h) ==
    /\ CanArrive(h)
    /\ \E name \in BodyNames :
         LET rec == [Did(Begin(h, "patch"), "findFirst") EXCEPT !.existing = Row("c1")]
             trimmed == Trim(name)
         IN  IF ~rec.existing.found
               THEN Set(h, Goto([rec EXCEPT !.res.status = 404], "done"))
             ELSE IF name # <<>> /\ trimmed = <<>>
               THEN Set(h, Goto([rec EXCEPT !.res.status = 400], "done"))
             ELSE Set(h, Goto([rec EXCEPT !.bodyName = trimmed,
                                   !.nameChanged =
                                       NameChanged(name, trimmed, rec.existing)],
                              "patchUpdate"))
    /\ UNCHANGED <<vreq, vres, users, chats, messages, slack>>

\* PATCH /chats/:id: prisma.chat.update({ data }), then the rename when the
\* name changed and the chat the route read had a channel.
PatchUpdate(h) ==
    LET rec == Did(handlers[h], "chat.update name") IN
    /\ handlers[h].pc = "patchUpdate"
    /\ IF "c1" \notin DOMAIN chats
         THEN /\ chats' = chats
              /\ Set(h, Unhandled(rec))
         ELSE /\ chats' = [chats EXCEPT !["c1"].name =
                                    IF rec.bodyName # <<>> THEN rec.bodyName ELSE @]
              /\ Set(h, IF rec.nameChanged /\ rec.existing.slackChannelId # <<>>
                          THEN Goto(rec, "renameFind")
                          ELSE Goto([rec EXCEPT !.res.status = 200], "done"))
    /\ UNCHANGED <<vreq, vres, users, messages, slack>>

\* renameSlackChannelForChat called on its own.
CallRename(h) ==
    /\ CanArrive(h)
    /\ Set(h, Goto(Begin(h, "rename"), "renameFind"))
    /\ UNCHANGED <<vreq, vres, users, chats, messages, slack>>

\* Mutant: the functions go on without a token.
NoTokenNever(chat) == FALSE

\* !chat.owner?.slackAccessToken
NoToken(chat) == chat.ownerToken = ""

\* Mutant: the stored name is never taken as the desired one.
AlreadyNamedNever(chat, desired) == FALSE

\* chat.slackChannelName === desiredName
AlreadyNamed(chat, desired) == chat.slackChannelName = desired

\* renameSlackChannelForChat: findUnique, the three guards, the desired
\* name and its comparison with the stored one.
RenameFind(h) ==
    LET rec == [Did(handlers[h], "findUnique") EXCEPT !.chat = Row("c1")]
        desired == sanitizeChannelNameForSync(rec.chat.name, ChatIdChars)
    IN  /\ handlers[h].pc = "renameFind"
        /\ Set(h, IF ~rec.chat.found
                    THEN Return(rec, Result(FALSE, "chat_not_found", FALSE, <<>>))
                  ELSE IF rec.chat.slackChannelId = <<>>
                    THEN Return(rec, Result(FALSE, "no_slack_channel", FALSE, <<>>))
                  ELSE IF NoToken(rec.chat)
                    THEN Return(rec, Result(FALSE, "no_slack_token", FALSE, <<>>))
                  ELSE IF AlreadyNamed(rec.chat, desired)
                    THEN Return(rec, Result(TRUE, "", FALSE, desired))
                  ELSE Goto([rec EXCEPT !.desiredName = desired], "renameCall"))
        /\ UNCHANGED <<vreq, vres, users, chats, messages, slack>>

ChannelExists(id) ==
    \E i \in 1..Len(slack.channels) :
        slack.channels[i].id = id /\ slack.channels[i].state # "gone"

\* What Slack answers to conversations.rename when it is reached.
RenameAnswer(channel, name) ==
    IF ~ChannelExists(channel) THEN "channel_not_found"
    ELSE IF slack.channels[ChannelIndex(channel)].state = "archived" THEN "is_archived"
    ELSE IF name \in slack.taken THEN "name_taken"
    ELSE "ok"

Renamed(channel, name) == [slack EXCEPT !.channels[ChannelIndex(channel)].name = name]

\* The call is added to those the function made.
Called(rec, method, name, answer) ==
    [Did(rec, method) EXCEPT
       !.calls = Append(@, [method |-> method, name |-> name, answer |-> answer])]

\* Mutant: every error of the first rename is tried again.
RetryOnAny == {"name_taken", "channel_not_found", "is_archived", "other"}

\* code === "name_taken"
RetryOn == {"name_taken"}

\* renameSlackChannelForChat: client.conversations.rename with the desired
\* name, and the catch with its test of the error code.
RenameCall(h) ==
    /\ handlers[h].pc = "renameCall"
    /\ \E answer \in {"other", RenameAnswer(handlers[h].chat.slackChannelId,
                                            handlers[h].desiredName)} :
         LET rec == Called(handlers[h], "conversations.rename",
                           handlers[h].desiredName, answer)
         IN
         IF answer = "ok"
           THEN /\ slack' = Renamed(rec.chat.slackChannelId, rec.desiredName)
                /\ Set(h, Goto(rec, "renameSave"))
         ELSE IF answer \in RetryOn
           THEN /\ slack' = slack
                /\ Set(h, Goto([rec EXCEPT !.desiredName =
                                  sanitizeChannelNameForSync(FallbackSource(rec.chat.name),
                                                             ChatIdChars)],
                               "renameRetry"))
         ELSE /\ slack' = slack
              /\ Set(h, Return(rec, Result(FALSE, "rename_failed", FALSE, <<>>)))
    /\ UNCHANGED <<vreq, vres, users, chats, messages>>

\* prisma.chat.update({ data: { slackChannelName } }); it throws when the
\* row is gone.
SaveChannelName(name) ==
    chats' = IF "c1" \in DOMAIN chats
               THEN [chats EXCEPT !["c1"].slackChannelName = name]
               ELSE chats

\* renameSlackChannelForChat: the update after the first rename; a throw
\* lands in the outer catch with a code that is not name_taken.
RenameSave(h) ==
    LET rec == Did(handlers[h], "chat.update") IN
    /\ handlers[h].pc = "renameSave"
    /\ SaveChannelName(rec.desiredName)
    /\ Set(h, IF "c1" \in DOMAIN chats
                THEN Goto(rec, "renameTopic")
                ELSE Return(rec, Result(FALSE, "rename_failed", FALSE, <<>>)))
    /\ UNCHANGED <<vreq, vres, users, messages, slack>>

\* renameSlackChannelForChat: conversations.setTopic, a failure ignored.
RenameTopic(h) ==
    /\ handlers[h].pc = "renameTopic"
    /\ \E ok \in BOOLEAN :
         LET done == ok /\ ChannelExists(handlers[h].chat.slackChannelId)
             rec == Called(handlers[h], "conversations.setTopic", <<>>,
                           IF done THEN "ok" ELSE "other")
         IN  /\ slack' = IF done
                           THEN [slack EXCEPT
                                   !.channels[ChannelIndex(rec.chat.slackChannelId)].topic
                                      = "chat"]
                           ELSE slack
             /\ Set(h, Return(rec, Result(TRUE, "", TRUE, rec.desiredName)))
    /\ UNCHANGED <<vreq, vres, users, chats, messages>>

\* renameSlackChannelForChat: the second conversations.rename, with the
\* fallback name.
RenameRetry(h) ==
    /\ handlers[h].pc = "renameRetry"
    /\ \E answer \in {"other", RenameAnswer(handlers[h].chat.slackChannelId,
                                            handlers[h].desiredName)} :
         LET rec == Called(handlers[h], "conversations.rename",
                           handlers[h].desiredName, answer)
         IN
         IF answer = "ok"
           THEN /\ slack' = Renamed(rec.chat.slackChannelId, rec.desiredName)
                /\ Set(h, Goto(rec, "renameRetrySave"))
           ELSE /\ slack' = slack
                /\ Set(h, Return(rec, Result(FALSE, "rename_failed", FALSE, <<>>)))
    /\ UNCHANGED <<vreq, vres, users, chats, messages>>

\* renameSlackChannelForChat: the update after the second rename; a throw
\* lands in the inner catch.
RenameRetrySave(h) ==
    LET rec == Did(handlers[h], "chat.update") IN
    /\ handlers[h].pc = "renameRetrySave"
    /\ SaveChannelName(rec.desiredName)
    /\ Set(h, IF "c1" \in DOMAIN chats
                THEN Return(rec, Result(TRUE, "fallbackUsed", TRUE, rec.desiredName))
                ELSE Return(rec, Result(FALSE, "rename_failed", FALSE, <<>>)))
    /\ UNCHANGED <<vreq, vres, users, messages, slack>>

\* DELETE /chats/:id: prisma.chat.findFirst, 404, and the archive when the
\* chat the route read had a channel.
DeleteFind(h) ==
    LET rec == [Did(Begin(h, "delete"), "findFirst") EXCEPT !.existing = Row("c1")] IN
    /\ CanArrive(h)
    /\ Set(h, IF ~rec.existing.found THEN Goto([rec EXCEPT !.res.status = 404], "done")
              ELSE IF rec.existing.slackChannelId # <<>> THEN Goto(rec, "archiveFind")
              ELSE Goto(rec, "deleteRow"))
    /\ UNCHANGED <<vreq, vres, users, chats, messages, slack>>

\* archiveSlackChannelForChat called on its own.
CallArchive(h) ==
    /\ CanArrive(h)
    /\ Set(h, Goto(Begin(h, "archive"), "archiveFind"))
    /\ UNCHANGED <<vreq, vres, users, chats, messages, slack>>

\* archiveSlackChannelForChat: findUnique and the three guards.
ArchiveFind(h) ==
    LET rec == [Did(handlers[h], "findUnique") EXCEPT !.chat = Row("c1")] IN
    /\ handlers[h].pc = "archiveFind"
    /\ Set(h, IF ~rec.chat.found
                THEN Return(rec, Result(FALSE, "chat_not_found", FALSE, <<>>))
              ELSE IF rec.chat.slackChannelId = <<>>
                THEN Return(rec, Result(TRUE, "no_slack_channel", FALSE, <<>>))
              ELSE IF NoToken(rec.chat)
                THEN Return(rec, Result(TRUE, "no_slack_token", FALSE, <<>>))
              ELSE Goto(rec, "archiveCall"))
    /\ UNCHANGED <<vreq, vres, users, chats, messages, slack>>

\* What Slack answers to conversations.archive when it is reached.
ArchiveAnswer(channel) ==
    IF ~ChannelExists(channel) THEN "channel_not_found"
    ELSE IF slack.channels[ChannelIndex(channel)].state = "archived" THEN "already_archived"
    ELSE "ok"

\* Mutant: no error code counts as success.
ToleratedNone == {}

\* The error codes the catch of archiveSlackChannelForChat takes as success.
Tolerated == {"already_archived", "channel_not_found"}

\* archiveSlackChannelForChat: client.conversations.archive and the catch
\* with its test of the error code.
ArchiveCall(h) ==
    /\ handlers[h].pc = "archiveCall"
    /\ \E answer \in {"other", ArchiveAnswer(handlers[h].chat.slackChannelId)} :
         LET rec == Called(handlers[h], "conversations.archive", <<>>, answer) IN
         IF answer = "ok"
           THEN /\ slack' = [slack EXCEPT
                      !.channels[ChannelIndex(rec.chat.slackChannelId)].state = "archived"]
                /\ Set(h, Goto(rec, "archiveClear"))
         ELSE IF answer \in Tolerated
           THEN /\ slack' = slack
                /\ Set(h, Goto([rec EXCEPT !.result.reason = answer],
                               "archiveClearTolerated"))
         ELSE /\ slack' = slack
              /\ Set(h, Return(rec, Result(FALSE, "archive_failed", FALSE, <<>>)))
    /\ UNCHANGED <<vreq, vres, users, chats, messages>>

\* Mutant: the channel name is left on the chat.
ClearedIdOnly(row) == [row EXCEPT !.slackChannelId = <<>>]

\* data: { slackChannelId: null, slackChannelName: null }
Cleared(row) == [row EXCEPT !.slackChannelId = <<>>, !.slackChannelName = <<>>]

ClearBinding ==
    chats' = IF "c1" \in DOMAIN chats
               THEN [chats EXCEPT !["c1"] = Cleared(@)]
               ELSE chats

\* archiveSlackChannelForChat: the update after the archive; a throw lands
\* in the catch, without a Slack error code.
ArchiveClear(h) ==
    LET rec == Did(handlers[h], "chat.update") IN
    /\ handlers[h].pc = "archiveClear"
    /\ ClearBinding
    /\ Set(h, IF "c1" \in DOMAIN chats
                THEN Return(rec, Result(TRUE, "", TRUE, <<>>))
                ELSE Return(rec, Result(FALSE, "archive_failed", FALSE, <<>>)))
    /\ UNCHANGED <<vreq, vres, users, messages, slack>>

\* archiveSlackChannelForChat: the update in the catch; a throw leaves the
\* function, and the route, when there is one, logs it and goes on.
ArchiveClearTolerated(h) ==
    LET rec == Did(handlers[h], "chat.update") IN
    /\ handlers[h].pc = "archiveClearTolerated"
    /\ ClearBinding
    /\ Set(h, IF "c1" \in DOMAIN chats
                THEN Return(rec, Result(TRUE, rec.result.reason, TRUE, <<>>))
                ELSE Return(Did(rec, "threw"), Result(FALSE, "threw", FALSE, <<>>)))
    /\ UNCHANGED <<vreq, vres, users, messages, slack>>

\* DELETE /chats/:id: prisma.chat.delete, which takes the messages of the
\* chat with it (a deleted message keeps its place, with no chat), and the
\* answer.
DeleteRow(h) ==
    LET rec == Did(handlers[h], "chat.delete") IN
    /\ handlers[h].pc = "deleteRow"
    /\ IF "c1" \in DOMAIN chats
         THEN /\ chats' = [c \in DOMAIN chats \ {"c1"} |-> chats[c]]
              /\ messages' = [i \in 1..Len(messages) |->
                                IF messages[i].chatId = "c1"
                                  THEN [messages[i] EXCEPT !.chatId = ""]
                                  ELSE messages[i]]
              /\ Set(h, Goto([rec EXCEPT !.res.status = 200], "done"))
         ELSE /\ chats' = chats
              /\ messages' = messages
              /\ Set(h, Unhandled(rec))
    /\ UNCHANGED <<vreq, vres, users, slack>>

\* The owner opens, renames and deletes the chat; the two functions of
\* slackChatSync.js on their own.
NextLifecycle ==
    \/ \E h \in HandlerIds : GetChat(h)
    \/ \E h \in HandlerIds : ConversationsCreate(h)
    \/ \E h \in HandlerIds : ChatUpdate(h)
    \/ \E h \in HandlerIds : SetTopic(h)
    \/ \E h \in HandlerIds : PostChatInitMessage(h)
    \/ \E h \in HandlerIds : ReloadChat(h)
    \/ \E h \in HandlerIds : SyncFind(h)
    \/ \E h \in HandlerIds : SyncPost(h)
    \/ \E h \in HandlerIds : SyncStamp(h)
    \/ \E h \in HandlerIds : PatchFind(h)
    \/ \E h \in HandlerIds : PatchUpdate(h)
    \/ \E h \in HandlerIds : CallRename(h)
    \/ \E h \in HandlerIds : RenameFind(h)
    \/ \E h \in HandlerIds : RenameCall(h)
    \/ \E h \in HandlerIds : RenameSave(h)
    \/ \E h \in HandlerIds : RenameTopic(h)
    \/ \E h \in HandlerIds : RenameRetry(h)
    \/ \E h \in HandlerIds : RenameRetrySave(h)
    \/ \E h \in HandlerIds : DeleteFind(h)
    \/ \E h \in HandlerIds : CallArchive(h)
    \/ \E h \in HandlerIds : ArchiveFind(h)
    \/ \E h \in HandlerIds : ArchiveCall(h)
    \/ \E h \in HandlerIds : ArchiveClear(h)
    \/ \E h \in HandlerIds : ArchiveClearTolerated(h)
    \/ \E h \in HandlerIds : DeleteRow(h)

SpecLifecycle == InitLifecycle /\ [][NextLifecycle]_vars

(***************************************************************************)
(* Claims on renameSlackChannelForChat and archiveSlackChannelForChat,     *)
(* checked under SpecLifecycle.                                            *)
(***************************************************************************)
\* The handlers in which renameSlackChannelForChat has read the chat.
RanRename(h) ==
    /\ handlers[h].kind \in {"patch", "rename"}
    /\ handlers[h].chat.found

\* The handlers in which archiveSlackChannelForChat has read the chat.
RanArchive(h) ==
    /\ handlers[h].kind \in {"delete", "archive"}
    /\ handlers[h].chat.found

\* The calls of one method that the function of handler h made to Slack.
CallsOf(h, method) ==
    SelectSeq(handlers[h].calls, LAMBDA call : call.method = method)

\* The function of handler h wrote the chat.
WroteChat(h) == "chat.update" \in Range(handlers[h].trace)

\* The chat the function read has no channel, or its stored channel name is
\* already the sanitized form of its name.
NothingToRename(h) ==
    \/ handlers[h].chat.slackChannelId = <<>>
    \/ handlers[h].chat.slackChannelName =
          sanitizeChannelNameForSync(handlers[h].chat.name, ChatIdChars)

\* C15: when the chat has no channel, or the sanitized form of its name is
\* the channel name already stored, rename ends at once: it makes no call
\* to Slack and writes nothing to the chat.
C15_RenameNothingToDo ==
    \A h \in HandlerIds :
        RanRename(h) /\ NothingToRename(h) =>
            /\ handlers[h].pc = "done"
            /\ handlers[h].calls = <<>>
            /\ ~WroteChat(h)
            /\ ~handlers[h].result.changed

\* A PATCH that changes the letter case of the name of a chat that has a
\* channel: the route calls rename, which finds the channel name as it
\* should be.
C15_Witness ==
    \E h \in HandlerIds :
        /\ RanRename(h)
        /\ handlers[h].kind = "patch"
        /\ handlers[h].nameChanged
        /\ handlers[h].chat.slackChannelId # <<>>
        /\ handlers[h].chat.ownerToken # ""
        /\ NothingToRename(h)
        /\ handlers[h].result = Result(TRUE, "", FALSE, handlers[h].chat.slackChannelName)

\* No other request or call has begun.
Alone(h) == \A g \in HandlerIds \ {h} : handlers[g].pc = "idle"

RenameCalls(h) == CallsOf(h, "conversations.rename")

\* Slack answered the first rename of the function with name_taken.
FirstNameTaken(h) ==
    /\ RanRename(h)
    /\ RenameCalls(h) # <<>>
    /\ RenameCalls(h)[1].answer = "name_taken"

\* C16: rename never calls conversations.rename more than twice; it calls
\* it a second time exactly when Slack answered the first call with
\* name_taken, and then with the sanitized form of the chat name followed
\* by "-1"; after a name_taken the stored channel name is the fallback name
\* when the second call succeeded and the name stored before when it failed.
C16_RenameRetriesOnceOnNameTaken ==
    \A h \in HandlerIds :
        RanRename(h) =>
            LET calls == RenameCalls(h) IN
            /\ Len(calls) <= 2
            /\ Len(calls) = 2 =>
                  /\ calls[1].answer = "name_taken"
                  /\ calls[2].name =
                        sanitizeChannelNameForSync(handlers[h].chat.name \o <<"-", "1">>,
                                                   ChatIdChars)
            /\ FirstNameTaken(h) /\ Finished(h) => Len(calls) = 2
            /\ FirstNameTaken(h) /\ Finished(h) /\ Alone(h) =>
                  chats["c1"].slackChannelName =
                     IF calls[2].answer = "ok" THEN calls[2].name
                     ELSE handlers[h].chat.slackChannelName

\* The name asked for is taken, the fallback name is not: the second call
\* succeeds and its name is stored.
C16_Witness ==
    \E h \in HandlerIds :
        /\ FirstNameTaken(h)
        /\ Finished(h)
        /\ Alone(h)
        /\ RenameCalls(h)[2].answer = "ok"
        /\ RenameCalls(h)[2].name # RenameCalls(h)[1].name
        /\ chats["c1"].slackChannelName = RenameCalls(h)[2].name
        /\ handlers[h].result.ok

\* The name asked for and the fallback name are both taken.
C16_WitnessBothFail ==
    \E h \in HandlerIds :
        /\ FirstNameTaken(h)
        /\ Finished(h)
        /\ Alone(h)
        /\ RenameCalls(h)[2].answer = "name_taken"
        /\ chats["c1"].slackChannelName = handlers[h].chat.slackChannelName

\* Slack turned the first rename of the function down with an error other
\* than name_taken.
FirstRejectedOtherwise(h) ==
    /\ RanRename(h)
    /\ RenameCalls(h) # <<>>
    /\ RenameCalls(h)[1].answer \notin {"ok", "name_taken"}

\* C17: when Slack turns the rename down with an error other than
\* name_taken, the function makes no other call to Slack, returns a
\* failure, and leaves the stored channel name as it was; the PATCH that
\* called it answers 200 and the chat keeps the name of the request.
C17_OtherRenameErrorNotRetried ==
    \A h \in HandlerIds :
        FirstRejectedOtherwise(h) =>
            /\ Finished(h)
            /\ Len(handlers[h].calls) = 1
            /\ ~WroteChat(h)
            /\ ~handlers[h].result.ok
            /\ handlers[h].result.reason = "rename_failed"
            /\ Alone(h) =>
                  /\ chats["c1"].slackChannelName = handlers[h].chat.slackChannelName
                  /\ handlers[h].kind = "patch" =>
                        /\ handlers[h].res.status = 200
                        /\ chats["c1"].name = handlers[h].bodyName

\* A PATCH with a new name for a chat whose channel is archived in Slack.
C17_Witness ==
    \E h \in HandlerIds :
        /\ FirstRejectedOtherwise(h)
        /\ Alone(h)
        /\ handlers[h].kind = "patch"
        /\ RenameCalls(h)[1].answer = "is_archived"
        /\ handlers[h].bodyName # handlers[h].existing.name
        /\ chats["c1"].name = handlers[h].bodyName
        /\ chats["c1"].slackChannelName # handlers[h].desiredName
        /\ handlers[h].res.status = 200

ArchiveCalls(h) == CallsOf(h, "conversations.archive")

\* The function has returned, to its caller or to the DELETE route.
ArchiveReturned(h) ==
    /\ RanArchive(h)
    /\ handlers[h].pc \in {"done", "deleteRow"}

\* The chat has neither channel id nor channel name.
Unbound(c) ==
    /\ chats[c].slackChannelId = <<>>
    /\ chats[c].slackChannelName = <<>>

\* Handler g began after handler h had finished, and no third one began.
Successive(h, g) ==
    /\ h \in handlers[g].after
    /\ \A k \in HandlerIds \ {h, g} : handlers[k].pc = "idle"

\* C18: an archive that Slack accepts leaves the chat with neither channel
\* id nor channel name; an archive of a chat that has no channel returns
\* success without a call to Slack and without a write; an archive after an
\* archive that cleared the binding makes no call to Slack and leaves the
\* chat as the first one left it.
C18_ArchiveClearsAndIsIdempotent ==
    \A h \in HandlerIds :
        /\ (/\ ArchiveReturned(h)
            /\ Alone(h)
            /\ "c1" \in DOMAIN chats
            /\ ArchiveCalls(h) # <<>>
            /\ ArchiveCalls(h)[1].answer = "ok") =>
              /\ Unbound("c1")
              /\ handlers[h].result = Result(TRUE, "", TRUE, <<>>)
        /\ RanArchive(h) /\ handlers[h].chat.slackChannelId = <<>> =>
              /\ ArchiveReturned(h)
              /\ handlers[h].result = Result(TRUE, "no_slack_channel", FALSE, <<>>)
              /\ handlers[h].calls = <<>>
              /\ ~WroteChat(h)
        /\ \A g \in HandlerIds :
              (/\ handlers[h].kind = "archive"
               /\ handlers[h].result.changed
               /\ Successive(h, g)
               /\ RanArchive(g)) =>
                  /\ ArchiveReturned(g)
                  /\ handlers[g].result.ok
                  /\ handlers[g].calls = <<>>
                  /\ ~WroteChat(g)
                  /\ "c1" \in DOMAIN chats => Unbound("c1")

\* Two calls of the function, one after the other, on a chat with an
\* active channel: the first archives and clears, the second finds no
\* channel.
C18_Witness ==
    \E h, g \in HandlerIds :
        /\ handlers[h].kind = "archive"
        /\ ArchiveCalls(h) # <<>>
        /\ ArchiveCalls(h)[1].answer = "ok"
        /\ handlers[h].result = Result(TRUE, "", TRUE, <<>>)
        /\ Successive(h, g)
        /\ handlers[g].kind = "archive"
        /\ RanArchive(g)
        /\ Finished(g)
        /\ handlers[g].result.reason = "no_slack_channel"
        /\ Unbound("c1")

\* Slack answered the archive of the function with this error code.
ArchiveAnswered(h, codes) ==
    /\ RanArchive(h)
    /\ ArchiveCalls(h) # <<>>
    /\ ArchiveCalls(h)[1].answer \in codes

\* C19: when Slack answers the archive with already_archived or
\* channel_not_found, the function returns success and the chat is left
\* with neither channel id nor channel name; when Slack answers with any
\* other error, the function returns a failure, writes nothing, and the
\* chat keeps the channel id and channel name it had.
C19_ArchiveErrorCodes ==
    \A h \in HandlerIds :
        /\ (/\ ArchiveAnswered(h, {"already_archived", "channel_not_found"})
            /\ ArchiveReturned(h)
            /\ Alone(h)
            /\ "c1" \in DOMAIN chats) =>
              /\ handlers[h].result.ok
              /\ handlers[h].result.reason = ArchiveCalls(h)[1].answer
              /\ Unbound("c1")
        /\ ArchiveAnswered(h, {"other"}) =>
              /\ ArchiveReturned(h)
              /\ ~handlers[h].result.ok
              /\ handlers[h].result.reason = "archive_failed"
              /\ ~WroteChat(h)
              /\ Alone(h) /\ "c1" \in DOMAIN chats =>
                    /\ chats["c1"].slackChannelId = handlers[h].chat.slackChannelId
                    /\ chats["c1"].slackChannelName = handlers[h].chat.slackChannelName

\* The archive of a chat whose channel is gone from the workspace.
C19_Witness ==
    \E h \in HandlerIds :
        /\ ArchiveAnswered(h, {"channel_not_found"})
        /\ handlers[h].kind = "archive"
        /\ Finished(h)
        /\ Alone(h)
        /\ handlers[h].chat.slackChannelId # <<>>
        /\ handlers[h].result.ok
        /\ Unbound("c1")

\* The archive of a chat that Slack turns down with another error.
C19_WitnessOther ==
    \E h \in HandlerIds :
        /\ ArchiveAnswered(h, {"other"})
        /\ Finished(h)
        /\ Alone(h)
        /\ handlers[h].kind = "archive"
        /\ ~handlers[h].result.ok
        /\ chats["c1"].slackChannelId # <<>>

\* The owner of the chat has no bot token.
NoCredential == users["u1"].slackAccessToken = ""

\* What a handler logs when it reaches Slack from GET /chats/:id.
EnsureChannelCalls ==
    {"conversations.create", "name_taken", "conversations.create failed",
     "setTopic", "init", "syncPost"}

\* The handlers of GET /chats/:id.
IsGet(h) == handlers[h].kind = "" /\ handlers[h].pc # "idle"

\* The channel id and channel name of the chat are the same before and
\* after the step.
BindingKept ==
    "c1" \in DOMAIN chats /\ "c1" \in DOMAIN chats' =>
        /\ chats'["c1"].slackChannelId = chats["c1"].slackChannelId
        /\ chats'["c1"].slackChannelName = chats["c1"].slackChannelName

C20_WitnessGet ==
    \E h \in HandlerIds :
        /\ NoCredential
        /\ IsGet(h)
        /\ handlers[h].chatId = "c1"
        /\ handlers[h].chat.slackChannelId = <<>>
        /\ handlers[h].res = [status |-> 200, slackChannelId |-> <<>>]

(***************************************************************************)
(* Claims on PATCH and DELETE /chats/:id, checked under SpecLifecycle.     *)
(***************************************************************************)
\* The place of the first x in seq, 0 when there is none.
FirstIndex(seq, x) ==
    IF x \in Range(seq) THEN CHOOSE i \in 1..Len(seq) :
                                /\ seq[i] = x
                                /\ \A j \in 1..(i - 1) : seq[j] # x
    ELSE 0

\* The DELETE requests that found the chat with a channel.
DeletesBound(h) ==
    /\ handlers[h].kind = "delete"
    /\ handlers[h].existing.found
    /\ handlers[h].existing.slackChannelId # <<>>

\* What archiveSlackChannelForChat can give back to the DELETE route.
ArchiveOutcomes ==
    {Result(TRUE, "", TRUE, <<>>),
     Result(TRUE, "already_archived", TRUE, <<>>),
     Result(TRUE, "channel_not_found", TRUE, <<>>),
     Result(TRUE, "no_slack_channel", FALSE, <<>>),
     Result(TRUE, "no_slack_token", FALSE, <<>>),
     Result(FALSE, "archive_failed", FALSE, <<>>),
     Result(FALSE, "chat_not_found", FALSE, <<>>),
     Result(FALSE, "threw", FALSE, <<>>)}

\* C21: a DELETE that found the chat with a channel calls archive before
\* prisma.chat.delete, goes on to prisma.chat.delete whatever archive gave
\* back, and when it has finished the chat row is gone.
C21_DeleteArchivesFirstAndAlwaysDeletes ==
    \A h \in HandlerIds :
        DeletesBound(h) =>
            LET trace == handlers[h].trace IN
            /\ "chat.delete" \in Range(trace) =>
                  /\ FirstIndex(trace, "findUnique") > 0
                  /\ FirstIndex(trace, "findUnique") < FirstIndex(trace, "chat.delete")
                  /\ handlers[h].result \in ArchiveOutcomes
            /\ handlers[h].pc \in {"deleteRow", "done"} =>
                  handlers[h].result \in ArchiveOutcomes
            /\ Finished(h) =>
                  /\ "chat.delete" \in Range(trace)
                  /\ "c1" \notin DOMAIN chats
                  /\ Alone(h) => handlers[h].res.status = 200

\* Slack turns the archive down with an error that is not expected; the
\* row is removed and the request answered.
C21_Witness ==
    \E h \in HandlerIds :
        /\ DeletesBound(h)
        /\ Finished(h)
        /\ Alone(h)
        /\ handlers[h].result = Result(FALSE, "archive_failed", FALSE, <<>>)
        /\ "c1" \notin DOMAIN chats
        /\ handlers[h].res.status = 200

\* Archive throws in the DELETE route.
C21_WitnessThrown ==
    \E h \in HandlerIds :
        /\ DeletesBound(h)
        /\ Finished(h)
        /\ handlers[h].result.reason = "threw"
        /\ "c1" \notin DOMAIN chats

\* The PATCH requests that got past the checks of the body.
Patches(h) ==
    /\ handlers[h].kind = "patch"
    /\ handlers[h].existing.found
    /\ handlers[h].pc # "idle"
    /\ handlers[h].res.status # 400

\* The request carries a name that, trimmed, is not the name the chat had,
\* and the chat had a channel.
RenamesBound(h) ==
    /\ handlers[h].bodyName # <<>>
    /\ handlers[h].bodyName # handlers[h].existing.name
    /\ handlers[h].existing.slackChannelId # <<>>

\* renameSlackChannelForChat was called in the handler.
RenameInvoked(h) == "findUnique" \in Range(handlers[h].trace)

\* C22: PATCH calls rename only when the trimmed name of the request is
\* not the name the chat had and the chat had a channel, and then it does;
\* a PATCH without a name, or with the name the chat has, calls neither
\* rename nor Slack and leaves the stored channel name as it was.
C22_PatchRenamesOnlyOnChangedName ==
    \A h \in HandlerIds :
        Patches(h) =>
            /\ RenameInvoked(h) => RenamesBound(h)
            /\ (/\ RenamesBound(h)
                /\ Finished(h)
                /\ "chat.update name" \in Range(handlers[h].trace)
                /\ handlers[h].res.status = 200) => RenameInvoked(h)
            /\ ~RenamesBound(h) =>
                  /\ handlers[h].calls = <<>>
                  /\ ~WroteChat(h)
                  /\ Alone(h) /\ Finished(h) =>
                        /\ handlers[h].res.status = 200
                        /\ chats["c1"].slackChannelName =
                              handlers[h].existing.slackChannelName

\* A PATCH without a name, on a chat that has a channel and whose owner has
\* a bot token.
C22_Witness ==
    \E h \in HandlerIds :
        /\ Patches(h)
        /\ Finished(h)
        /\ Alone(h)
        /\ handlers[h].bodyName = <<>>
        /\ handlers[h].existing.slackChannelId # <<>>
        /\ handlers[h].existing.ownerToken # ""
        /\ ~RenameInvoked(h)
        /\ handlers[h].res.status = 200

\* A PATCH with the name the chat has.
C22_WitnessSameName ==
    \E h \in HandlerIds :
        /\ Patches(h)
        /\ Finished(h)
        /\ handlers[h].bodyName = handlers[h].existing.name
        /\ handlers[h].existing.slackChannelId # <<>>
        /\ ~RenameInvoked(h)

\* A PATCH with a new name that calls rename.
C22_WitnessRenamed ==
    \E h \in HandlerIds :
        /\ Patches(h)
        /\ Finished(h)
        /\ RenamesBound(h)
        /\ RenameInvoked(h)
        /\ handlers[h].result.changed

(***************************************************************************)
(* POST /ai/prompt.  The route exists in two versions: routes/ai.js, whose *)
(* findFirst selects id, systemPrompt, name, filesLocked and files, and    *)
(* unnamed/part_004, whose findFirst includes every column of the chat.    *)
(* A request is served by one of them.                                     *)
(***************************************************************************)
MaxPrompts == 1

RouteVersions == {"ai.js", "part_004"}

\* The columns of Chat that the findFirst of the route gives back.
ChatColumnsSelected(version) ==
    IF version = "ai.js"
      THEN {"id", "systemPrompt", "name", "filesLocked", "files"}
      ELSE {"id", "systemPrompt", "name", "filesLocked", "files",
            "slackChannelId", "slackChannelName", "ownerId"}

\* chat.slackChannelId as the route sees it: undefined when the column was
\* not selected.
SlackChannelIdRead(version, row) ==
    IF "slackChannelId" \in ChatColumnsSelected(version) THEN row.slackChannelId ELSE ""

\* req.body and req.googleAccessToken
PromptRequest(chatId, userPrompt, accessToken) ==
    [chatId |-> chatId, userPrompt |-> userPrompt, accessToken |-> accessToken]

PromptRequests ==
    {PromptRequest("c1", "hi", "at"), PromptRequest("", "hi", "at"),
     PromptRequest("c1", " ", "at"), PromptRequest("c1", "hi", ""),
     PromptRequest("c9", "hi", "at")}

NoPromptChat == [id |-> "", slackChannelId |-> "", files |-> 0]

IdlePrompt ==
    [pc |-> "idle", version |-> "", req |-> PromptRequest("", "", ""),
     userToken |-> "", chat |-> NoPromptChat, unreadable |-> {},
     fileContents |-> <<>>, sent |-> <<>>, userMessage |-> 0, aiMessage |-> 0, aiResponse |-> "",
     slackTs |-> 0, res |-> [status |-> 0, aiResponse |-> ""], trace |-> <<>>]

\* The chat has a channel or has none, with none to MaxFiles files; its
\* owner has a bot token or has none.
InitPrompt ==
    /\ vreq = Idle
    /\ vres = Pending
    /\ \E token \in {"", "xoxb"} :
         users = [u \in UserIds |->
                    [slackUserId |-> "S1", slackAccessToken |-> token,
                     refreshToken |-> "rt", accessToken |-> "at0"]]
    /\ \E channel \in {"", "C1"}, files \in 0..MaxFiles :
         chats = [c \in ChatIds |->
                    [ownerId |-> "u1", name |-> "n", slackChannelId |-> channel,
                     slackChannelName |-> IF channel = "" THEN "" ELSE "esme-n-c1",
                     files |-> files]]
    /\ messages = <<>>
    /\ slack = [posts |-> <<>>]
    /\ handlers = [h \in 1..MaxPrompts |-> IdlePrompt]

\* res.status(code).json({ error })
PromptRefused(rec, code) == Goto([rec EXCEPT !.res.status = code], "done")

\* The outer catch: res.status(500).json({ error })
PromptFailed(rec) == PromptRefused(Did(rec, "caught"), 500)

\* res.json({ aiResponse })
Answer(rec) ==
    Goto([rec EXCEPT !.res = [status |-> 200, aiResponse |-> rec.aiResponse]], "done")

\* s.trim() is empty, for the prompts of PromptRequests
Blank(text) == text \in {"", " "}

\* The checks of the body and of the token, before the chat is read.
PromptBodyStatus(version, req) ==
    IF version = "ai.js"
      THEN IF req.chatId = "" THEN 400
           ELSE IF Blank(req.userPrompt) THEN 400
           ELSE IF req.accessToken = "" THEN 401
           ELSE 0
      ELSE IF req.chatId = "" \/ req.userPrompt = "" THEN 400 ELSE 0

\* if (chat.slackChannelId && accessToken) in routes/ai.js,
\* if (chat.slackChannelId && req.user.slackAccessToken) in part_004
PushesHuman(rec) ==
    /\ rec.chat.slackChannelId # ""
    /\ IF rec.version = "ai.js" THEN rec.req.accessToken # "" ELSE rec.userToken # ""

\* if (chat.slackChannelId && req.user.slackAccessToken)
PushesAI(rec) == rec.chat.slackChannelId # "" /\ rec.userToken # ""

\* The order of the steps: routes/ai.js reads the files before it saves the
\* user message, part_004 after it has pushed it.
AfterFindChat(rec) ==
    Goto(rec, IF rec.version = "ai.js" THEN "promptReadFiles" ELSE "promptCreateHuman")

AfterHumanPush(rec) ==
    Goto(rec, IF rec.version = "ai.js" THEN "promptCallGemini" ELSE "promptReadFiles")

AfterCreateHuman(rec) ==
    IF PushesHuman(rec) THEN Goto(rec, "promptPostHuman") ELSE AfterHumanPush(rec)

AfterReadFiles(rec) ==
    Goto(rec, IF rec.version = "ai.js" THEN "promptCreateHuman" ELSE "promptCallGemini")

\* Mutant: a push that fails is not caught where it is made.
AfterPushFailedUncaught(rec, next) == PromptRefused(Did(rec, "push failed"), 500)

\* The catch around a push: console.error, and the route goes on.
AfterPushFailed(rec, next) == Did(next, "push failed")

\* The checks, prisma.chat.findFirst, 404, and in part_004 the 400 of a
\* chat without files.
PromptFindChat(h) ==
    /\ CanArrive(h)
    /\ \E version \in RouteVersions, req \in PromptRequests :
         LET rec == [handlers[h] EXCEPT !.version = version, !.req = req,
                                        !.userToken = users["u1"].slackAccessToken]
             status == PromptBodyStatus(version, req)
         IN  IF status # 0 THEN Set(h, PromptRefused(rec, status))
             ELSE IF req.chatId \notin DOMAIN chats
               THEN Set(h, PromptRefused(Did(rec, "findFirst"), 404))
             ELSE LET row == chats[req.chatId]
                      got == [Did(rec, "findFirst") EXCEPT !.chat =
                                [id |-> req.chatId,
                                 slackChannelId |-> SlackChannelIdRead(version, row),
                                 files |-> row.files]]
                  IN  IF version # "ai.js" /\ row.files = 0
                        THEN Set(h, PromptRefused(got, 400))
                        ELSE Set(h, AfterFindChat(got))
    /\ UNCHANGED <<vreq, vres, users, chats, messages, slack>>

\* The catch of the loop: "Error reading file: ..." in place of the text.
FileError(f) == [name |-> f, content |-> "Error reading file"]

\* combinedPrompt: the system prompt, one block for each entry of
\* fileContents in order, and the request of the user.
CombinedPrompt(fileContents, userPrompt) ==
    <<[name |-> 0, content |-> "system"]>>
        \o fileContents \o <<[name |-> 0, content |-> userPrompt]>>

\* The loop over chat.files: every getDriveFileContent gives the text or
\* throws into the catch of the loop.  The loop touches neither the store
\* nor Slack, so it is one step; `unreadable` are the documents that throw.
PromptReadFiles(h) ==
    /\ handlers[h].pc = "promptReadFiles"
    /\ \E unreadable \in SUBSET (1..handlers[h].chat.files) :
         LET rec == [Did(handlers[h], "readFiles") EXCEPT
                       !.unreadable = unreadable,
                       !.fileContents =
                          [f \in 1..handlers[h].chat.files |->
                             IF f \in unreadable THEN FileError(f) ELSE FileText(f)]]
         IN  Set(h, AfterReadFiles(rec))
    /\ UNCHANGED <<vreq, vres, users, chats, messages, slack>>

PromptHumanRow(h, rec) ==
    [chatId |-> rec.chat.id, sender |-> "user", text |-> rec.req.userPrompt,
     userId |-> "u1", slackTs |-> 0, syncedToSlack |-> FALSE, by |-> h]

\* prisma.message.create of the user message.
PromptCreateHuman(h) ==
    LET rec == Did(handlers[h], "createHuman") IN
    /\ handlers[h].pc = "promptCreateHuman"
    /\ \E ok \in BOOLEAN :
         IF ok
           THEN /\ messages' = Append(messages, PromptHumanRow(h, rec))
                /\ Set(h, AfterCreateHuman([rec EXCEPT !.userMessage = Len(messages) + 1]))
           ELSE /\ messages' = messages
                /\ Set(h, PromptFailed(rec))
    /\ UNCHANGED <<vreq, vres, users, chats, slack>>

\* Slack takes a post made with a bot token.
SlackAccepts(token) == token = "xoxb"

\* postMessageToSlack of the user message: with the Google token in
\* routes/ai.js, with the bot token in part_004, which goes on to store
\* the id of the post.
PromptPostHuman(h) ==
    LET rec == Did(handlers[h], "postHuman")
        token == IF rec.version = "ai.js" THEN rec.req.accessToken ELSE rec.userToken
    IN  /\ handlers[h].pc = "promptPostHuman"
        /\ \E ok \in BOOLEAN :
             IF ok /\ SlackAccepts(token)
               THEN /\ slack' = [slack EXCEPT !.posts =
                           Append(@, Post(h, rec.chat.slackChannelId, "human", 0))]
                    /\ Set(h, IF rec.version = "ai.js" THEN AfterHumanPush(rec)
                              ELSE Goto([rec EXCEPT !.slackTs = PostTs(Len(slack.posts) + 1)],
                                        "promptStampHuman"))
               ELSE /\ slack' = slack
                    /\ Set(h, AfterPushFailed(rec, AfterHumanPush(rec)))
        /\ UNCHANGED <<vreq, vres, users, chats, messages>>

\* part_004: prisma.message.update of the user message.
PromptStampHuman(h) ==
    LET rec == Did(handlers[h], "stampHuman") IN
    /\ handlers[h].pc = "promptStampHuman"
    /\ \E ok \in BOOLEAN :
         IF ok
           THEN /\ messages' = [messages EXCEPT ![rec.userMessage] = Stamped(@, rec.slackTs)]
                /\ Set(h, AfterHumanPush(rec))
           ELSE /\ messages' = messages
                /\ Set(h, AfterPushFailed(rec, AfterHumanPush(rec)))
    /\ UNCHANGED <<vreq, vres, users, chats, slack>>

\* callGemini(combinedPrompt); `sent` is the prompt it was called with.
PromptCallGemini(h) ==
    LET rec == [Did(handlers[h], "callGemini") EXCEPT
                  !.sent = CombinedPrompt(handlers[h].fileContents,
                                          handlers[h].req.userPrompt)]
    IN  /\ handlers[h].pc = "promptCallGemini"
        /\ \E ok \in BOOLEAN :
             Set(h, IF ok THEN Goto([rec EXCEPT !.aiResponse = "answer"], "promptCreateAI")
                    ELSE PromptFailed(rec))
        /\ UNCHANGED <<vreq, vres, users, chats, messages, slack>>

\* prisma.message.create of the assistant message.
PromptCreateAI(h) ==
    LET rec == Did(handlers[h], "createAI") IN
    /\ handlers[h].pc = "promptCreateAI"
    /\ \E ok \in BOOLEAN :
         IF ok
           THEN /\ messages' = Append(messages, AssistantRow(h, rec))
                /\ Set(h, LET made == [rec EXCEPT !.aiMessage = Len(messages) + 1] IN
                          IF PushesAI(made) THEN Goto(made, "promptPostAI")
                          ELSE Answer(made))
           ELSE /\ messages' = messages
                /\ Set(h, PromptFailed(rec))
    /\ UNCHANGED <<vreq, vres, users, chats, slack>>

\* postMessageToSlack of the assistant message.
PromptPostAI(h) ==
    LET rec == Did(handlers[h], "postAI") IN
    /\ handlers[h].pc = "promptPostAI"
    /\ \E ok \in BOOLEAN :
         IF ok /\ SlackAccepts(rec.userToken)
           THEN /\ slack' = [slack EXCEPT !.posts =
                       Append(@, Post(h, rec.chat.slackChannelId, "ai", 0))]
                /\ Set(h, Goto([rec EXCEPT !.slackTs = PostTs(Len(slack.posts) + 1)],
                               "promptStampAI"))
           ELSE /\ slack' = slack
                /\ Set(h, AfterPushFailed(rec, Answer(rec)))
    /\ UNCHANGED <<vreq, vres, users, chats, messages>>

\* prisma.message.update of the assistant message, and the answer.
PromptStampAI(h) ==
    LET rec == Did(handlers[h], "stampAI") IN
    /\ handlers[h].pc = "promptStampAI"
    /\ \E ok \in BOOLEAN :
         IF ok
           THEN /\ messages' = [messages EXCEPT ![rec.aiMessage] = Stamped(@, rec.slackTs)]
                /\ Set(h, Answer(rec))
           ELSE /\ messages' = messages
                /\ Set(h, AfterPushFailed(rec, Answer(rec)))
    /\ UNCHANGED <<vreq, vres, users, chats, slack>>

\* Prompts of the owner.
NextPrompt ==
    \/ \E h \in HandlerIds : PromptFindChat(h)
    \/ \E h \in HandlerIds : PromptReadFiles(h)
    \/ \E h \in HandlerIds : PromptCreateHuman(h)
    \/ \E h \in HandlerIds : PromptPostHuman(h)
    \/ \E h \in HandlerIds : PromptStampHuman(h)
    \/ \E h \in HandlerIds : PromptCallGemini(h)
    \/ \E h \in HandlerIds : PromptCreateAI(h)
    \/ \E h \in HandlerIds : PromptPostAI(h)
    \/ \E h \in HandlerIds : PromptStampAI(h)

SpecPrompt == InitPrompt /\ [][NextPrompt]_vars

(***************************************************************************)
(* Claims on POST /ai/prompt, checked under SpecPrompt.                    *)
(***************************************************************************)
\* In the trace of handler h a step of `steps` is followed by the catch of
\* a push.
PushFailedAt(h, steps) ==
    \E i \in 1..(Len(handlers[h].trace) - 1) :
        /\ handlers[h].trace[i] \in steps
        /\ handlers[h].trace[i + 1] = "push failed"

PushFailed(h) == PushFailedAt(h, {"postHuman", "stampHuman", "postAI", "stampAI"})

\* The message was not marked as pushed and has no Slack id.
Unsynced(i) == ~messages[i].syncedToSlack /\ messages[i].slackTs = 0

\* Every message of before the step is there after it, with the chat,
\* sender and text it had.
MessagesKept ==
    /\ Len(messages') >= Len(messages)
    /\ \A i \in 1..Len(messages) :
          /\ messages'[i].chatId = messages[i].chatId
          /\ messages'[i].sender = messages[i].sender
          /\ messages'[i].text = messages[i].text

\* C23: in POST /ai/prompt no step removes or rewrites a stored message;
\* when a push of the user message or of the assistant message fails and
\* nothing else does, the request is answered 200 with the answer of the
\* model, both messages are stored, and the message whose push failed is
\* unsynced and without Slack id.
C23_FailedPushDoesNotBlockPrompt ==
    /\ [][MessagesKept]_vars
    /\ [](\A h \in HandlerIds :
            /\ PushFailed(h) /\ "caught" \notin Range(handlers[h].trace) =>
                  /\ handlers[h].res.status \in {0, 200}
                  /\ handlers[h].userMessage \in MessagesBy(h, "user")
                  /\ Finished(h) =>
                        /\ handlers[h].res = [status |-> 200, aiResponse |-> "answer"]
                        /\ handlers[h].aiMessage \in MessagesBy(h, "ai")
            /\ PushFailedAt(h, {"postHuman", "stampHuman"}) =>
                  Unsynced(handlers[h].userMessage)
            /\ PushFailedAt(h, {"postAI", "stampAI"}) =>
                  Unsynced(handlers[h].aiMessage))

\* Both pushes are refused by Slack; the caller has the answer.
C23_Witness ==
    \E h \in HandlerIds :
        /\ Finished(h)
        /\ PushFailedAt(h, {"postHuman"})
        /\ PushFailedAt(h, {"postAI"})
        /\ handlers[h].res = [status |-> 200, aiResponse |-> "answer"]
        /\ Unsynced(handlers[h].userMessage)
        /\ Unsynced(handlers[h].aiMessage)
        /\ slack.posts = <<>>

\* The prompt of handler h got as far as its answer, for a chat that has a
\* channel and an owner with a bot token.
AnsweredForBoundChat(h) ==
    /\ Finished(h)
    /\ handlers[h].res.status = 200
    /\ chats[handlers[h].chat.id].slackChannelId # ""
    /\ users["u1"].slackAccessToken # ""

\* The post of the assistant message that handler h made.
AIPostsOf(h) == {i \in PostsBy(h, "ai") : slack.posts[i].channel = chats["c1"].slackChannelId}

\* C24: a prompt answered for a chat that has a channel, with an owner that
\* has a bot token, posts the assistant message to that channel; when the
\* post and the update after it succeed, the assistant message carries the
\* Slack id of the post and is marked synced.
C24_AnswerPushedToBoundChannel ==
    \A h \in HandlerIds :
        AnsweredForBoundChat(h) =>
            /\ "postAI" \in Range(handlers[h].trace)
            /\ ~PushFailedAt(h, {"postAI", "stampAI"}) =>
                  /\ AIPostsOf(h) # {}
                  /\ \E i \in AIPostsOf(h) :
                        /\ messages[handlers[h].aiMessage].slackTs = slack.posts[i].ts
                        /\ messages[handlers[h].aiMessage].syncedToSlack

\* The same for the requests that part_004 serves.
C24_AnswerPushedByPart004 ==
    \A h \in HandlerIds :
        AnsweredForBoundChat(h) /\ handlers[h].version = "part_004" =>
            /\ "postAI" \in Range(handlers[h].trace)
            /\ ~PushFailedAt(h, {"postAI", "stampAI"}) =>
                  \E i \in AIPostsOf(h) :
                      /\ messages[handlers[h].aiMessage].slackTs = slack.posts[i].ts
                      /\ messages[handlers[h].aiMessage].syncedToSlack

\* routes/ai.js answers a prompt for a chat that has a channel, with an
\* owner that has a bot token, and nothing was posted.
C24_Witness ==
    \E h \in HandlerIds :
        /\ AnsweredForBoundChat(h)
        /\ handlers[h].version = "ai.js"
        /\ handlers[h].chat.slackChannelId = ""
        /\ slack.posts = <<>>
        /\ Unsynced(handlers[h].aiMessage)

(***************************************************************************)
(* Claim on getFreshGoogleAccessTokenForUser, checked under SpecPull.      *)
(***************************************************************************)
\* The handlers in which getFreshGoogleAccessTokenForUser has read the user.
RefreshCalled(h) == "loadOwner" \in Range(handlers[h].trace)

\* The function has returned or thrown in handler h.
RefreshOver(h) ==
    /\ RefreshCalled(h)
    /\ handlers[h].pc \notin {"tokenFetch", "saveToken"}

\* The function wrote the user in handler h.
RefreshSaved(h) == "saveToken" \in Range(handlers[h].trace)

\* C25: without a stored refresh token getFreshGoogleAccessTokenForUser
\* throws without a call to Google and without a write; with one it calls
\* Google every time it is called; when Google grants the token the
\* function stores it and returns it, and when Google rejects the exchange
\* the function throws and writes nothing, so that the stored access token
\* is the one it was until some call has stored a new one.
C25_RefreshEveryTime ==
    /\ \A h \in HandlerIds :
          RefreshCalled(h) =>
              LET owner == users[handlers[h].chat.ownerId]
                  trace == handlers[h].trace
              IN  /\ owner.refreshToken = "" =>
                        /\ "tokenFetch" \notin Range(trace)
                        /\ ~RefreshSaved(h)
                        /\ handlers[h].pc # "tokenFetch"
                        /\ handlers[h].driveAccessToken = ""
                        /\ "callGemini" \notin Range(trace)
                  /\ owner.refreshToken # "" =>
                        \/ handlers[h].pc = "tokenFetch"
                        \/ Occurrences(trace, "tokenFetch") = 1
                  /\ RefreshSaved(h) =>
                        /\ handlers[h].driveAccessToken = "at1"
                        /\ owner.accessToken = "at1"
                  /\ RefreshOver(h) /\ ~RefreshSaved(h) =>
                        /\ handlers[h].driveAccessToken = ""
                        /\ "callGemini" \notin Range(trace)
    /\ (\A h \in HandlerIds : ~RefreshSaved(h)) => users["u1"].accessToken = "at0"

\* Two calls for a user with a refresh token and a stored access token:
\* both go to Google; the first is rejected, the second granted.
C25_Witness ==
    \E h, g \in HandlerIds :
        /\ h # g
        /\ RefreshOver(h)
        /\ Occurrences(handlers[h].trace, "tokenFetch") = 1
        /\ ~RefreshSaved(h)
        /\ Occurrences(handlers[g].trace, "tokenFetch") = 1
        /\ RefreshSaved(g)
        /\ users["u1"].accessToken = "at1"

\* A call for a user without a refresh token.
C25_WitnessNoRefreshToken ==
    \E h \in HandlerIds :
        /\ RefreshOver(h)
        /\ users["u1"].refreshToken = ""
        /\ users["u1"].accessToken = "at0"

(***************************************************************************)
(* The routes of chatsRouter with a second chat: POST /chats creates it.   *)
(***************************************************************************)
\* The name of the chat that POST /chats creates.
NewChatName == <<"R", "2">>

\* POST /chats: prisma.chat.create, with no channel.  The new chat is "c9".
CreateChat ==
    /\ "c9" \notin DOMAIN chats
    /\ chats' = [c \in DOMAIN chats \cup {"c9"} |->
                   IF c = "c9"
                     THEN [ownerId |-> "u1", name |-> NewChatName,
                           slackChannelId |-> <<>>, slackChannelName |-> <<>>,
                           files |-> 0]
                     ELSE chats[c]]
    /\ UNCHANGED <<vreq, vres, users, messages, slack, handlers>>

NextBindings ==
    \/ CreateChat
    \/ \E h \in HandlerIds : GetChat(h)
    \/ \E h \in HandlerIds : ConversationsCreate(h)
    \/ \E h \in HandlerIds : ChatUpdate(h)
    \/ \E h \in HandlerIds : SetTopic(h)
    \/ \E h \in HandlerIds : PostChatInitMessage(h)
    \/ \E h \in HandlerIds : ReloadChat(h)
    \/ \E h \in HandlerIds : SyncFind(h)
    \/ \E h \in HandlerIds : SyncPost(h)
    \/ \E h \in HandlerIds : SyncStamp(h)
    \/ \E h \in HandlerIds : PatchFind(h)
    \/ \E h \in HandlerIds : PatchUpdate(h)
    \/ \E h \in HandlerIds : CallRename(h)
    \/ \E h \in HandlerIds : RenameFind(h)
    \/ \E h \in HandlerIds : RenameCall(h)
    \/ \E h \in HandlerIds : RenameSave(h)
    \/ \E h \in HandlerIds : RenameTopic(h)
    \/ \E h \in HandlerIds : RenameRetry(h)
    \/ \E h \in HandlerIds : RenameRetrySave(h)
    \/ \E h \in HandlerIds : DeleteFind(h)
    \/ \E h \in HandlerIds : CallArchive(h)
    \/ \E h \in HandlerIds : ArchiveFind(h)
    \/ \E h \in HandlerIds : ArchiveCall(h)
    \/ \E h \in HandlerIds : ArchiveClear(h)
    \/ \E h \in HandlerIds : ArchiveClearTolerated(h)
    \/ \E h \in HandlerIds : DeleteRow(h)

SpecBindings == InitLifecycle /\ [][NextBindings]_vars

\* The chats that carry this channel id.
ChatsBoundTo(id) == {c \in DOMAIN chats : chats[c].slackChannelId = id}

Created(c) == c \notin DOMAIN chats /\ c \in DOMAIN chats'

\* A chat without channel id has one after this step.
BecomesBound(c) ==
    /\ c \in DOMAIN chats
    /\ c \in DOMAIN chats'
    /\ chats[c].slackChannelId = <<>>
    /\ chats'[c].slackChannelId # <<>>

\* Handler h is a GET of chat c by its owner, who had a bot token when the
\* chat was read, and in this step it runs its prisma.chat.update.
ReadWritesBinding(h, c) ==
    /\ IsGet(h)
    /\ handlers[h].chatId = c
    /\ handlers[h].userToken # ""
    /\ handlers[h].chat.slackChannelId = <<>>
    /\ handlers[h].pc = "update"
    /\ handlers'[h].pc # "update"

C32_WitnessNoCredential ==
    \E h \in HandlerIds :
        /\ NoCredential
        /\ "c9" \in DOMAIN chats
        /\ IsGet(h)
        /\ Finished(h)
        /\ handlers[h].chatId = "c9"
        /\ chats["c9"].slackChannelId = <<>>
        /\ slack.channels = <<>>

(***************************************************************************)
(* Claim on the order of the steps of getOrCreateSlackChannel, checked     *)
(* under SpecChannel.                                                      *)
(***************************************************************************)
Last(seq) == seq[Len(seq)]

\* getOrCreateSlackChannel threw at the step the trace of h ends with, and
\* the route answered from its catch.
ThrewAt(h, steps) ==
    /\ Finished(h)
    /\ handlers[h].trace # <<>>
    /\ Last(handlers[h].trace) \in steps

\* Slack has the channel that h created, with this topic.
OwnChannelHas(h, topic) ==
    \E i \in 1..Len(slack.channels) :
        /\ slack.channels[i].id = handlers[h].created
        /\ slack.channels[i].by = h
        /\ slack.channels[i].topic = topic

\* C33: the channel id and name of a chat are written only by a handler
\* whose conversations.create Slack accepted, with the id and the name of
\* that channel, before its setTopic and its init post; a handler whose
\* create was refused never writes; a handler whose setTopic or init post
\* throws leaves the chat as its update wrote it, skips what follows
\* (no init post after a failed setTopic, no reload, no sync) and the route
\* answers from its catch with the chat as first read.
C33_BindingAfterCreateBeforeTopic ==
    /\ [][chats' # chats =>
            \E h \in HandlerIds :
                /\ handlers[h].pc = "update"
                /\ handlers'[h].pc = "setTopic"
                /\ Last(handlers[h].trace) = "conversations.create"
                /\ OwnChannelHas(h, "")
                /\ PostsBy(h, "init") = {}
                /\ chats'[handlers[h].chat.id].slackChannelId = handlers[h].created
                /\ chats'[handlers[h].chat.id].slackChannelName = handlers[h].channelName]_vars
    /\ [](\A h \in HandlerIds :
            /\ ThrewAt(h, {"name_taken", "conversations.create failed"}) =>
                  /\ "chat.update" \notin Range(handlers[h].trace)
                  /\ handlers[h].created = <<>>
            /\ Range(handlers[h].trace) \cap {"setTopic", "init"} # {} =>
                  /\ FirstIndex(handlers[h].trace, "conversations.create") > 0
                  /\ FirstIndex(handlers[h].trace, "chat.update")
                        = FirstIndex(handlers[h].trace, "conversations.create") + 1
                  /\ FirstIndex(handlers[h].trace, "setTopic")
                        = FirstIndex(handlers[h].trace, "chat.update") + 1
                  /\ chats[handlers[h].chatId].slackChannelId = handlers[h].created
                  /\ chats[handlers[h].chatId].slackChannelName = handlers[h].channelName
            /\ ThrewAt(h, {"setTopic", "init"}) =>
                  /\ chats[handlers[h].chatId].slackChannelId = handlers[h].created
                  /\ handlers[h].created # <<>>
                  /\ handlers[h].res = [status |-> 200, slackChannelId |-> <<>>]
                  /\ PostsBy(h, "init") = {}
            /\ ThrewAt(h, {"setTopic"}) => OwnChannelHas(h, ""))

\* setTopic threw: the chat has the channel, which has no topic and no
\* init post, and the route answered with the chat unbound.
C33_Witness ==
    \E h \in HandlerIds :
        /\ ThrewAt(h, {"setTopic"})
        /\ chats["c1"].slackChannelId = handlers[h].created
        /\ handlers[h].created # <<>>
        /\ OwnChannelHas(h, "")
        /\ handlers[h].res.slackChannelId = <<>>

\* The init post threw after the topic was set.
C33_WitnessInit ==
    \E h \in HandlerIds :
        /\ ThrewAt(h, {"init"})
        /\ chats["c1"].slackChannelId = handlers[h].created
        /\ OwnChannelHas(h, "chat")

\* conversations.create was refused: no binding.
C33_WitnessCreateFailed ==
    \E h \in HandlerIds :
        /\ ThrewAt(h, {"conversations.create failed"})
        /\ chats["c1"].slackChannelId = <<>>
        /\ slack.channels = <<>>

(***************************************************************************)
(* Two calls of getOrCreateSlackChannel that both write: the routes of     *)
(* chatsRouter on a chat without channel whose owner has a bot token, with *)
(* room for a PATCH of the name between the two GETs, so that Slack        *)
(* accepts the second conversations.create as well.                        *)
(***************************************************************************)
MaxRaceOps == 3

InitRace ==
    /\ vreq = Idle
    /\ vres = Pending
    /\ messages \in
         {<<>>, <<[chatId |-> "c1", sender |-> "user", text |-> "hi", userId |-> "u1",
                   slackTs |-> 0, syncedToSlack |-> FALSE, by |-> 0]>>}
    /\ users = [u \in UserIds |->
                  [slackUserId |-> "S1", slackAccessToken |-> "xoxb",
                   refreshToken |-> "rt", accessToken |-> "at0"]]
    /\ chats = [c \in ChatIds |->
                  [ownerId |-> "u1", name |-> FirstName, slackChannelId |-> <<>>,
                   slackChannelName |-> <<>>, files |-> 1]]
    /\ \E foreign \in ForeignNames :
         slack = [posts |-> <<>>, channels |-> <<>>, taken |-> foreign]
    /\ handlers = [h \in 1..MaxRaceOps |-> IdleOp]

SpecRace == InitRace /\ [][NextLifecycle]_vars

\* The GETs that read the chat without channel and wrote a binding.
Writers == {h \in HandlerIds : IsGet(h) /\ WroteChat(h)}

\* The pair that handler h wrote.
PairOf(h) == <<handlers[h].created, handlers[h].channelName>>

StoredPair(c) == <<chats[c].slackChannelId, chats[c].slackChannelName>>

\* Handler h writes its binding in this step.
Writes(h) == handlers[h].pc = "update" /\ handlers'[h].pc = "setTopic"

\* No rename and no archive has had a channel to work on.
OnlyEnsureChannelWrote ==
    \A k \in HandlerIds :
        handlers[k].kind # "" => handlers[k].chat.slackChannelId = <<>>

\* C34: every write of getOrCreateSlackChannel replaces channel id and
\* channel name together by those of the channel the writer created,
\* whatever the chat carried; so when two GETs that both read the chat
\* without channel have both written and finished, the chat carries the
\* pair of one of them, never the id of one with the name of the other,
\* and that pair is the id and the name of one channel of the workspace.
C34_LastWriterWinsAsPair ==
    /\ [][\A h \in HandlerIds :
            Writes(h) =>
                /\ StoredPair(handlers[h].chatId)' = PairOf(h)
                /\ \A g \in HandlerIds \ {h} : ~Writes(g)]_vars
    /\ [](\A h, g \in Writers :
            /\ h # g
            /\ Finished(h)
            /\ Finished(g)
            /\ "c1" \in DOMAIN chats
            /\ OnlyEnsureChannelWrote
            => /\ StoredPair("c1") \in {PairOf(h), PairOf(g)}
               /\ \E i \in 1..Len(slack.channels) :
                     StoredPair("c1") = <<slack.channels[i].id, slack.channels[i].name>>)

\* Two GETs have written; the chat carries the channel created first,
\* whose writer wrote last.
C34_Witness ==
    \E h, g \in Writers :
        /\ Finished(h)
        /\ Finished(g)
        /\ OnlyEnsureChannelWrote
        /\ PairOf(h)[1] = ChannelId(1)
        /\ PairOf(g)[1] = ChannelId(2)
        /\ PairOf(h)[2] # PairOf(g)[2]
        /\ StoredPair("c1") = PairOf(h)

\* Two GETs have written; the chat carries the channel created second.
C34_WitnessSecond ==
    \E h, g \in Writers :
        /\ Finished(h)
        /\ Finished(g)
        /\ OnlyEnsureChannelWrote
        /\ PairOf(h)[1] = ChannelId(1)
        /\ PairOf(g)[1] = ChannelId(2)
        /\ StoredPair("c1") = PairOf(g)

(***************************************************************************)
(* POST /slack/events with two chats, each with its channel, and events    *)
(* that differ in their id or in their channel.  A handler that is at an   *)
(* await goes on when what it awaits settles, whatever the other handlers  *)
(* do: weak fairness on the steps of each handler.                         *)
(***************************************************************************)
MaxEvents == 2

\* Messages of the connected user, with id 1 or 2, in channel C1 or C2.
SuccessiveRequests ==
    {EventRequest(AuthValid, "event_callback", HumanMessage(t, ch, "S1")) :
        t \in EventTs, ch \in {"C1", "C2"}}

InitEvents ==
    /\ vreq = Idle
    /\ vres = Pending
    /\ \E rt \in {"", "rt"} :
         users = [u \in UserIds |->
                    [slackUserId |-> "S1", slackAccessToken |-> "xoxb",
                     refreshToken |-> rt, accessToken |-> "at0"]]
    /\ chats = [c \in {"c1", "c2"} |->
                  [ownerId |-> "u1", name |-> "n",
                   slackChannelId |-> IF c = "c1" THEN "C1" ELSE "C2",
                   slackChannelName |-> IF c = "c1" THEN "esme-n-c1" ELSE "esme-n-c2",
                   files |-> 0]]
    /\ messages = <<>>
    /\ slack = [posts |-> <<>>]
    /\ handlers = [h \in 1..MaxEvents |-> IdleHandler]

\* What handler h does after the acknowledgment.
EventStep(h) ==
    \/ FindChat(h)
    \/ FindSender(h)
    \/ FindExisting(h)
    \/ CreateHuman(h)
    \/ LoadOwner(h)
    \/ TokenFetch(h)
    \/ SaveToken(h)
    \/ CallGemini(h)
    \/ CreateAI(h)
    \/ PostAI(h)
    \/ StampAI(h)
    \/ CatchFindChat(h)
    \/ CatchPost(h)

NextEvents ==
    \/ \E h \in HandlerIds : ReceiveEvent(h, SuccessiveRequests)
    \/ \E h \in HandlerIds : FindChat(h)
    \/ \E h \in HandlerIds : FindSender(h)
    \/ \E h \in HandlerIds : FindExisting(h)
    \/ \E h \in HandlerIds : CreateHuman(h)
    \/ \E h \in HandlerIds : LoadOwner(h)
    \/ \E h \in HandlerIds : TokenFetch(h)
    \/ \E h \in HandlerIds : SaveToken(h)
    \/ \E h \in HandlerIds : CallGemini(h)
    \/ \E h \in HandlerIds : CreateAI(h)
    \/ \E h \in HandlerIds : PostAI(h)
    \/ \E h \in HandlerIds : StampAI(h)
    \/ \E h \in HandlerIds : CatchFindChat(h)
    \/ \E h \in HandlerIds : CatchPost(h)

SpecEvents ==
    /\ InitEvents
    /\ [][NextEvents]_vars
    /\ \A h \in 1..MaxEvents : WF_vars(EventStep(h))

\* The event of g has an id that no other event of the run has.
FreshId(g) ==
    /\ handlers[g].pc # "idle"
    /\ \A h \in HandlerIds \ {g} :
          handlers[h].pc # "idle" => handlers[h].req.event.ts # handlers[g].req.event.ts

\* The step of the trace of g that comes before its catch.
FailedStep(g) ==
    handlers[g].trace[FirstIndex(handlers[g].trace, "catchFindChat") - 1]

\* The handler of g ran into its catch.
Caught(g) == "catchFindChat" \in Range(handlers[g].trace)

\* The assistant Message of g is stored, posted and stamped.
Answered(g) ==
    /\ Finished(g)
    /\ Last(handlers[g].trace) = "complete"
    /\ PostsBy(g, "ai") # {}
    /\ \E i \in MessagesBy(g, "ai") :
          /\ messages[i].syncedToSlack
          /\ messages[i].slackTs = handlers[g].slackTs

\* C35: every event that is taken in is handled to its end, whatever
\* happens to the others.  An event whose id no other event has, in the
\* channel of the same chat or of another, is never dropped at the
\* duplicate check: its human Message is stored as soon as it has passed
\* the check; it ends in the catch only after a step of its own (a missing
\* refresh token, Google, Gemini, the store or Slack failing); and when no
\* step of its own fails it is answered: assistant Message stored, posted
\* and stamped.
C35_FailureIsTerminalForItsEventOnly ==
    /\ \A g \in 1..MaxEvents : (handlers[g].pc # "idle") ~> Finished(g)
    /\ [](\A g \in HandlerIds :
            FreshId(g) =>
                /\ "findExisting" \in Range(handlers[g].trace) =>
                      handlers[g].pc = "createHuman" \/ HumanMessageStored(g)
                /\ Finished(g) => HumanMessageStored(g)
                /\ Caught(g) =>
                      FailedStep(g) \in {"loadOwner", "tokenFetch", "callGemini",
                                         "createAI", "postAI", "stampAI"}
                /\ Finished(g) /\ ~Caught(g) => Answered(g))

\* The first event failed at Gemini and got its notice; the second, in the
\* same channel, is answered.
C35_Witness ==
    \E h, g \in HandlerIds :
        /\ h < g
        /\ Finished(h)
        /\ Caught(h)
        /\ FailedStep(h) = "callGemini"
        /\ handlers[h].req.event.channel = "C1"
        /\ handlers[g].req.event.channel = "C1"
        /\ FreshId(g)
        /\ Finished(g)
        /\ Answered(g)

\* The first event failed at Slack and its notice failed too; the second,
\* in the channel of the other chat, is answered.
C35_WitnessOtherChat ==
    \E h, g \in HandlerIds :
        /\ h < g
        /\ Finished(h)
        /\ Caught(h)
        /\ FailedStep(h) = "postAI"
        /\ PostsBy(h, "error") = {}
        /\ handlers[h].req.event.channel = "C1"
        /\ handlers[g].req.event.channel = "C2"
        /\ FreshId(g)
        /\ Finished(g)
        /\ Answered(g)
        /\ \E i \in MessagesBy(g, "user") : messages[i].chatId = "c2"

\* The event was dropped at the duplicate check.
DroppedAsDuplicate(g) ==
    /\ Finished(g)
    /\ Last(handlers[g].trace) = "findExisting"

\* C36 as stated: an event is dropped as a duplicate only when a Message
\* of the chat bound to its channel carries its id.
C36_DuplicateOnlyWithinChat ==
    \A g \in HandlerIds :
        DroppedAsDuplicate(g) =>
            \E i \in 1..Len(messages) :
                /\ messages[i].slackTs = handlers[g].req.event.ts
                /\ messages[i].chatId = handlers[g].chat.id

\* What holds of C36: an event is dropped as a duplicate only when some
\* Message, of whatever chat, carries its id.
C36_DuplicateOnlyWithSameId ==
    \A g \in HandlerIds :
        DroppedAsDuplicate(g) =>
            \E i \in 1..Len(messages) : messages[i].slackTs = handlers[g].req.event.ts

\* The only event of channel C1 was dropped because a Message of the chat
\* of channel C2 carries the same id.
C36_Witness ==
    \E g \in HandlerIds :
        /\ DroppedAsDuplicate(g)
        /\ handlers[g].req.event.channel = "C1"
        /\ handlers[g].chat.id = "c1"
        /\ \A i \in 1..Len(messages) : messages[i].chatId # "c1"
        /\ \E i \in 1..Len(messages) :
              /\ messages[i].chatId = "c2"
              /\ messages[i].slackTs = handlers[g].req.event.ts

(***************************************************************************)
(* The synced flag and the Slack id of a Message.                          *)
(***************************************************************************)
\* Message i is marked synced and has a Slack id.
Synced(i) == messages[i].syncedToSlack /\ messages[i].slackTs # 0

\* The step leaves message i unsynced, or marks it synced and gives it its
\* Slack id at once, or leaves it synced with the id it had.
FlagAndIdTogether(i) ==
    \/ ~messages'[i].syncedToSlack /\ messages'[i].slackTs = 0
    \/ /\ messages'[i].syncedToSlack
       /\ messages'[i].slackTs # 0
       /\ i <= Len(messages) /\ messages[i].syncedToSlack =>
             messages'[i].slackTs = messages[i].slackTs

C37_WitnessStampFailed ==
    \E h \in HandlerIds :
        /\ Finished(h)
        /\ Caught(h)
        /\ FailedStep(h) = "stampAI"
        /\ PostsBy(h, "ai") # {}
        /\ \E i \in MessagesBy(h, "ai") : Unsynced(i)

(***************************************************************************)
(* Claim on channel id and channel name as a pair, checked under           *)
(* SpecLifecycle.                                                          *)
(***************************************************************************)
\* C38 as stated: a chat has a channel id and a channel name, or neither.
C38_IdAndNameTogether ==
    \A c \in DOMAIN chats :
        (chats[c].slackChannelId = <<>>) <=> (chats[c].slackChannelName = <<>>)

\* What holds of C38: a chat with a channel id has a channel name; a chat
\* that has a name without an id got it from a rename that read the chat
\* while it had its channel and saved after an archive had cleared both.
C38_IdHasName ==
    \A c \in DOMAIN chats :
        /\ chats[c].slackChannelId # <<>> => chats[c].slackChannelName # <<>>
        /\ chats[c].slackChannelId = <<>> /\ chats[c].slackChannelName # <<>> =>
              \E h, g \in HandlerIds :
                  /\ RanRename(h)
                  /\ handlers[h].chat.slackChannelId # <<>>
                  /\ WroteChat(h)
                  /\ RanArchive(g)
                  /\ handlers[g].chat.slackChannelId # <<>>
                  /\ WroteChat(g)

\* A PATCH with a new name and a DELETE of the same chat: the rename of the
\* PATCH saved its name after the archive of the DELETE had cleared id and
\* name, and the row is still there.
C38_Witness ==
    \E h, g \in HandlerIds :
        /\ handlers[h].kind = "patch"
        /\ handlers[g].kind = "delete"
        /\ "c1" \in DOMAIN chats
        /\ chats["c1"].slackChannelId = <<>>
        /\ chats["c1"].slackChannelName # <<>>
        /\ chats["c1"].slackChannelName = handlers[h].desiredName

(***************************************************************************)
(* syncMessagesToSlack on a chat with a history: messages typed in the web *)
(* app, answers of the model, and messages that came in from Slack while   *)
(* the chat had an earlier channel.                                        *)
(***************************************************************************)
MaxHistory == 3

MaxSyncs == 1

\* A message as POST /ai/prompt stores it, or as the events handler does.
HistoryRows ==
    {[chatId |-> "c1", sender |-> "user", text |-> "hi", userId |-> "u1",
      slackTs |-> 0, syncedToSlack |-> FALSE, by |-> 0],
     [chatId |-> "c1", sender |-> "ai", text |-> "answer", userId |-> "",
      slackTs |-> 0, syncedToSlack |-> FALSE, by |-> 0],
     [chatId |-> "c1", sender |-> "user", text |-> "q", userId |-> "u1",
      slackTs |-> 1, syncedToSlack |-> TRUE, by |-> 0]}

InitBackfill ==
    /\ vreq = Idle
    /\ vres = Pending
    /\ users = [u \in UserIds |->
                  [slackUserId |-> "S1", slackAccessToken |-> "xoxb",
                   refreshToken |-> "rt", accessToken |-> "at0"]]
    /\ chats = [c \in ChatIds |->
                  [ownerId |-> "u1", name |-> FirstName, slackChannelId |-> <<>>,
                   slackChannelName |-> <<>>, files |-> 1]]
    /\ \E n \in 0..MaxHistory : messages \in [1..n -> HistoryRows]
    /\ slack = [posts |-> <<>>, channels |-> <<>>, taken |-> {}]
    /\ handlers = [h \in 1..MaxSyncs |-> IdleCall]

SpecBackfill == InitBackfill /\ [][NextChannel]_vars

\* The messages that came in from Slack: they carry the id of their event.
Pulled == {i \in 1..Len(messages) : messages[i].slackTs \in EventTs}

\* The messages syncMessagesToSlack has stamped.
Backfilled == {i \in 1..Len(messages) : messages[i].slackTs > 100}

\* Handler h posts a message of the history in this step.
PostsHistory(h) ==
    /\ handlers[h].pc = "syncPost"
    /\ Len(slack'.posts) = Len(slack.posts) + 1

\* The post of handler h fails in this step.
PostFails(h) ==
    /\ handlers[h].pc = "syncPost"
    /\ handlers'[h].pc # "syncPost" \/ handlers'[h].toSync # handlers[h].toSync
    /\ slack' = slack

\* C39: syncMessagesToSlack takes the messages of the chat that are not
\* marked synced, in ascending order of creation; it posts the first of
\* those left and, when Slack accepts, its next step marks that message
\* synced with the id of that post; when the post fails the message stays
\* unsynced and the function goes on with the next one; every message it
\* took is tried once; the messages that came in from Slack are never
\* taken, never posted and keep the id of their event.
C39_BackfillPostsUnsyncedInOrder ==
    /\ [][\A h \in HandlerIds :
            /\ handlers[h].pc = "syncFind" /\ handlers'[h] # handlers[h] =>
                  handlers'[h].toSync \in {<<>>, Ascending(WhereUnsynced("c1"))}
            /\ PostsHistory(h) =>
                  /\ Unsynced(Head(handlers[h].toSync))
                  /\ Head(handlers[h].toSync) \notin Pulled
                  /\ handlers'[h].pc = "syncStamp"
                  /\ handlers'[h].slackTs = slack'.posts[Len(slack'.posts)].ts
                  /\ messages' = messages
            /\ handlers[h].pc = "syncStamp" /\ handlers'[h] # handlers[h] =>
                  /\ messages'[Head(handlers[h].toSync)] =
                        Stamped(messages[Head(handlers[h].toSync)], handlers[h].slackTs)
                  /\ handlers'[h].toSync = Tail(handlers[h].toSync)
            /\ PostFails(h) =>
                  /\ messages' = messages
                  /\ handlers'[h].toSync = Tail(handlers[h].toSync)
                  /\ handlers'[h].pc =
                        IF Tail(handlers[h].toSync) = <<>> THEN "done" ELSE "syncPost"]_vars
    /\ [](\A h \in HandlerIds :
            /\ \A i \in 1..Len(handlers[h].toSync) :
                  /\ handlers[h].toSync[i] \notin Pulled
                  /\ \A j \in 1..Len(handlers[h].toSync) :
                        i < j => handlers[h].toSync[i] < handlers[h].toSync[j]
                  /\ \A k \in Backfilled : k <= handlers[h].toSync[i]
            /\ Finished(h) /\ "findMany" \in Range(handlers[h].trace) =>
                  /\ Occurrences(handlers[h].trace, "syncPost")
                        = Len(messages) - Cardinality(Pulled)
                  /\ Cardinality(PostsBy(h, "history")) = Cardinality(Backfilled))
    /\ [](\A i \in 1..Len(messages) :
            /\ \A j \in Backfilled :
                  i \in Backfilled /\ i < j => messages[i].slackTs < messages[j].slackTs
            /\ i \in Pulled => messages[i].slackTs = 1 /\ messages[i].syncedToSlack
            /\ i \in Backfilled => messages[i].syncedToSlack /\ messages[i].by = 0)

\* A history of a typed message, a message that came in from Slack and an
\* answer: the post of the first failed, the third is posted and stamped,
\* the second was left alone.
C39_Witness ==
    \E h \in HandlerIds :
        /\ Finished(h)
        /\ Len(messages) = 3
        /\ Unsynced(1)
        /\ Pulled = {2}
        /\ Backfilled = {3}
        /\ Occurrences(handlers[h].trace, "syncPost") = 2
        /\ Cardinality(PostsBy(h, "history")) = 1

\* Three messages posted and stamped in the order of their creation.
C39_WitnessAll ==
    \E h \in HandlerIds :
        /\ Finished(h)
        /\ Backfilled = {1, 2, 3}
        /\ messages[1].slackTs < messages[2].slackTs
        /\ messages[2].slackTs < messages[3].slackTs

(***************************************************************************)
(* The User table under the two OAuth callbacks that write it: the verify  *)
(* callback of the Google strategy (config/passport.js) and the Slack      *)
(* OAuth callback (routes/ai.js).  Here users is the table, a sequence of  *)
(* rows, and handlers is the log of the callbacks that have run.  A column *)
(* that is null holds NoValue.  An upsert is one statement against the     *)
(* unique index on email.                                                  *)
(***************************************************************************)
MaxCallbacks == 3

MaxEmails == 2

EmailNames == <<"ann@x.org", "bob@x.org", "cy@x.org", "di@x.org">>

Emails == {EmailNames[e] : e \in 1..MaxEmails}

NoValue == ""

\* A field that prisma leaves out of the statement.
Undefined == "undefined"

GoogleAccessTokens == {"ya1", "ya2"}

GoogleRefreshTokens == {NoValue, "rt1", "rt2"}

SlackUsers == {"S1", "S2"}

BotTokens == {"xoxb1", "xoxb2"}

\* Mutant: a sign-in without refresh token writes the missing value.
RefreshTokenAsGiven(refreshToken) == refreshToken

\* refreshToken: refreshToken || undefined
RefreshTokenOrUndefined(refreshToken) ==
    IF refreshToken = NoValue THEN Undefined ELSE refreshToken

\* The columns of a row of User.
UserColumns ==
    {"email", "name", "googleId", "accessToken", "refreshToken",
     "slackUserId", "slackTeamId", "slackAccessToken"}

\* The row an INSERT with this data makes: a column left out is null.
Inserted(data) ==
    [col \in UserColumns |->
        IF col \in DOMAIN data /\ data[col] # Undefined THEN data[col] ELSE NoValue]

\* The row an UPDATE with this data makes: a column left out is kept.
Updated(row, data) ==
    [col \in UserColumns |->
        IF col \in DOMAIN data /\ data[col] # Undefined THEN data[col] ELSE row[col]]

\* The rows of the table with this email.
WithEmail(table, email) == {i \in 1..Len(table) : table[i].email = email}

\* prisma.user.upsert({ where: { email }, update, create })
Upsert(table, email, update, create) ==
    IF WithEmail(table, email) = {}
    THEN Append(table, Inserted(create))
    ELSE [i \in 1..Len(table) |->
            IF table[i].email = email THEN Updated(table[i], update) ELSE table[i]]

\* The unique index on slackUserId refuses a second row with the same id.
SlackUserTaken(table, email, slackUserId) ==
    \E i \in 1..Len(table) :
        table[i].email # email /\ table[i].slackUserId = slackUserId

InitUsers ==
    /\ vreq = Idle
    /\ vres = Pending
    /\ users = <<>>
    /\ chats = <<>>
    /\ messages = <<>>
    /\ slack = [posts |-> <<>>, channels |-> <<>>, taken |-> {}]
    /\ handlers = <<>>

\* The verify callback of the Google strategy.
GoogleVerify(email, accessToken, refreshToken) ==
    LET data == [name |-> "Ann", googleId |-> email,
                 accessToken |-> accessToken,
                 refreshToken |-> RefreshTokenOrUndefined(refreshToken)]
    IN  /\ Len(handlers) < MaxCallbacks
        /\ users' = Upsert(users, email, data, [email |-> email] @@ data)
        /\ handlers' = Append(handlers,
                              [op |-> "google", email |-> email, ok |-> TRUE,
                               accessToken |-> accessToken,
                               refreshToken |-> refreshToken])
        /\ UNCHANGED <<vreq, vres, chats, messages, slack>>

\* slackRouter.get("/oauth/callback"), from the upsert on.
SlackOAuthCallback(email, slackUserId, botToken) ==
    LET data == [slackUserId |-> slackUserId, slackTeamId |-> "T1",
                 slackAccessToken |-> botToken]
        ok == ~SlackUserTaken(users, email, slackUserId)
    IN  /\ Len(handlers) < MaxCallbacks
        /\ users' = IF ok
                     THEN Upsert(users, email, data,
                                 [email |-> email, name |-> "ann"] @@ data)
                     ELSE users
        /\ handlers' = Append(handlers,
                              [op |-> "slack", email |-> email, ok |-> ok,
                               slackUserId |-> slackUserId,
                               slackAccessToken |-> botToken])
        /\ UNCHANGED <<vreq, vres, chats, messages, slack>>

NextUsers ==
    \/ \E email \in Emails, accessToken \in GoogleAccessTokens,
          refreshToken \in GoogleRefreshTokens :
            GoogleVerify(email, accessToken, refreshToken)
    \/ \E email \in Emails, slackUserId \in SlackUsers, botToken \in BotTokens :
            SlackOAuthCallback(email, slackUserId, botToken)

SpecUsers == InitUsers /\ [][NextUsers]_vars

\* The row with this email, before and after the step.
RowOf(table, email) == table[CHOOSE i \in WithEmail(table, email) : TRUE]

\* The columns in which two rows differ.
Changed(before, after) == {col \in UserColumns : before[col] # after[col]}

MessagingColumns == {"slackUserId", "slackTeamId", "slackAccessToken"}

\* The callback that runs in this step.
Callback == handlers'[Len(handlers')]

\* The callback of this step leaves the rows of the other emails alone.
OtherRowsKept ==
    \A email \in Emails \ {Callback.email} :
        WithEmail(users, email) # {} => RowOf(users', email) = RowOf(users, email)

\* What the callback of this step does to the stored row of its email.
StoredRowFrame ==
    WithEmail(users, Callback.email) # {} =>
        LET before == RowOf(users, Callback.email)
            after == RowOf(users', Callback.email)
        IN  /\ Callback.op = "slack" =>
                  /\ Changed(before, after) \subseteq MessagingColumns
                  /\ after.accessToken = before.accessToken
                  /\ after.refreshToken = before.refreshToken
            /\ Callback.op = "slack" /\ Callback.ok =>
                  /\ after.slackUserId = Callback.slackUserId
                  /\ after.slackAccessToken = Callback.slackAccessToken
            /\ Callback.op = "google" =>
                  /\ Changed(before, after) \cap MessagingColumns = {}
                  /\ after.accessToken = Callback.accessToken
                  /\ after.refreshToken =
                        IF Callback.refreshToken = NoValue
                        THEN before.refreshToken
                        ELSE Callback.refreshToken

\* C40: after any sequence of Google sign-ins and Slack connects there is
\* one User for each email that went through a callback that succeeded
\* and none for the others; a Slack connect of a stored email changes no
\* column outside slackUserId, slackTeamId and slackAccessToken, so the
\* stored Google access and refresh tokens stay; a Google sign-in of a
\* stored email changes none of the three Slack columns and, when it
\* brings no refresh token, leaves the stored refresh token; no callback
\* changes the row of another email.
C40_OneUserPerEmailAndFrames ==
    /\ [](\A email \in Emails :
            Cardinality(WithEmail(users, email)) =
                IF \E k \in 1..Len(handlers) :
                        handlers[k].email = email /\ handlers[k].ok
                THEN 1 ELSE 0)
    /\ [][OtherRowsKept /\ StoredRowFrame]_vars

\* A user signed in with Google and got a refresh token, connected Slack,
\* and signed in again without a refresh token: one row, which has the
\* first refresh token, the second access token and the Slack columns.
C40_Witness ==
    /\ Len(handlers) = 3
    /\ handlers[1].op = "google" /\ handlers[1].refreshToken = "rt1"
    /\ handlers[1].accessToken = "ya1"
    /\ handlers[2].op = "slack" /\ handlers[2].email = handlers[1].email
    /\ handlers[3].op = "google" /\ handlers[3].email = handlers[1].email
    /\ handlers[3].refreshToken = NoValue /\ handlers[3].accessToken = "ya2"
    /\ Len(users) = 1
    /\ users[1].refreshToken = "rt1"
    /\ users[1].accessToken = "ya2"
    /\ users[1].slackAccessToken = handlers[2].slackAccessToken

\* A user created by the Slack connect, who then signs in with Google.
C40_WitnessSlackFirst ==
    /\ Len(handlers) = 2
    /\ handlers[1].op = "slack" /\ handlers[2].op = "google"
    /\ handlers[2].email = handlers[1].email
    /\ Len(users) = 1
    /\ users[1].slackUserId = handlers[1].slackUserId
    /\ users[1].accessToken = handlers[2].accessToken

\* A Slack connect refused by the unique index on slackUserId.
C40_WitnessRefused ==
    /\ Len(handlers) = 2
    /\ ~handlers[2].ok
    /\ Len(users) = 1

(***************************************************************************)
(* The two sanitizeChannelName functions, of services/slackChannelManager  *)
(* (used by getOrCreateSlackChannel) and of services/slackChatSync (used   *)
(* by renameSlackChannelForChat), applied to the same name and chat id.    *)
(* `vreq` is the name and the id, `vres` what each function returned.      *)
(***************************************************************************)
MaxShortNameLen == 2

MaxLongNameLen == 70

NameChars == {"Q", "a", "3", " ", "!", "-", "_"}

\* n times the character c
Repeat(c, n) == [i \in 1..n |-> c]

ScenarioName ==
    <<"Q", "3", " ", "P", "l", "a", "n", "n", "i", "n", "g", " ",
      "N", "o", "t", "e", "s", "!", "!">>

ScenarioChatId == <<"c", "l", "x", "7", "a", "b", "1", "2", "c", "d", "3", "4">>

\* Names as the routes store them (trimmed, not empty): every short name
\* over NameChars that a trim leaves alone, the name of the scenario, and
\* long names around the length at which the functions truncate.
SanitizeNames ==
    {n \in StringsUpTo(NameChars, MaxShortNameLen) : n # <<>> /\ Trim(n) = n}
        \cup {ScenarioName}
        \cup {Repeat("a", n) : n \in (MaxChannelNameLen - 2 * SuffixLen)..MaxLongNameLen}
        \cup {Repeat("a", n) \o <<" ", "b">> :
                  n \in (MaxChannelNameLen - 2 * SuffixLen)..(MaxLongNameLen - 2)}

SanitizeChatIds == {ChatIdChars, ScenarioChatId}

NotDerived == [ensured |-> <<>>, renamed |-> <<>>]

InitSanitize ==
    /\ vreq \in [name : SanitizeNames, chatId : SanitizeChatIds]
    /\ vres = NotDerived
    /\ NoStore

\* getOrCreateSlackChannel: const channelName = sanitizeChannelName(chat.name, chat.id)
DeriveForEnsure ==
    /\ vres.ensured = <<>>
    /\ vres' = [vres EXCEPT !.ensured = sanitizeChannelName(vreq.name, vreq.chatId)]
    /\ UNCHANGED <<vreq, users, chats, messages, slack, handlers>>

\* renameSlackChannelForChat: const desiredName = sanitizeChannelName(chat.name, chat.id)
DeriveForRename ==
    /\ vres.renamed = <<>>
    /\ vres' = [vres EXCEPT !.renamed = sanitizeChannelNameForSync(vreq.name, vreq.chatId)]
    /\ UNCHANGED <<vreq, users, chats, messages, slack, handlers>>

NextSanitize ==
    \/ DeriveForEnsure
    \/ DeriveForRename

SpecSanitize == InitSanitize /\ [][NextSanitize]_vars

(***************************************************************************)
(* Claims on the derived channel name, checked under SpecSanitize.         *)
(***************************************************************************)
BothDerived == vres.ensured # <<>> /\ vres.renamed # <<>>

\* "esme-", the sanitized name, "-", the last 8 characters of the id.
NameAsDescribed(name, chatId) ==
    <<"e", "s", "m", "e", "-">>
        \o TrimDash(CollapseDashes(ReplaceInvalid(ToLowerCase(name))))
        \o <<"-">> \o LastChars(chatId, SuffixLen)

ScenarioChannelName ==
    <<"e", "s", "m", "e", "-", "q", "3", "-", "p", "l", "a", "n", "n", "i", "n", "g",
      "-", "n", "o", "t", "e", "s", "-", "a", "b", "1", "2", "c", "d", "3", "4">>

\* C27 as stated: for every name and id both functions return "esme-", the
\* sanitized name, "-" and the last 8 characters of the id, so that they
\* return the same name; "Q3 Planning Notes!!" with an id that ends in
\* ab12cd34 gives esme-q3-planning-notes-ab12cd34.
C27_DerivedNameAsDescribed ==
    BothDerived =>
        /\ vres.ensured = NameAsDescribed(vreq.name, vreq.chatId)
        /\ vres.renamed = NameAsDescribed(vreq.name, vreq.chatId)
        /\ vres.ensured = vres.renamed
        /\ vreq.name = ScenarioName /\ vreq.chatId = ScenarioChatId =>
              vres.ensured = ScenarioChannelName

\* What holds of C27: the same, for the names whose described form has at
\* most 80 characters.
C27_DerivedNameWhenItFits ==
    BothDerived /\ Len(NameAsDescribed(vreq.name, vreq.chatId)) <= MaxChannelNameLen =>
        /\ vres.ensured = NameAsDescribed(vreq.name, vreq.chatId)
        /\ vres.renamed = vres.ensured
        /\ vreq.name = ScenarioName /\ vreq.chatId = ScenarioChatId =>
              vres.ensured = ScenarioChannelName

\* A name of 70 letters: the two functions return different names.
C27_Witness ==
    /\ BothDerived
    /\ vreq.name = Repeat("a", MaxLongNameLen)
    /\ vres.ensured # vres.renamed
    /\ Len(vres.renamed) = Len(vres.ensured) + 1

\* The name of the scenario, derived by both.
C27_WitnessScenario ==
    /\ BothDerived
    /\ vreq.name = ScenarioName
    /\ vreq.chatId = ScenarioChatId
    /\ vres.renamed = ScenarioChannelName

EndsWith(s, suffix) == LastChars(s, Len(suffix)) = suffix /\ Len(s) >= Len(suffix)

\* C28 as stated: the name either function returns has at most 80
\* characters and ends with the last 8 characters of the id.
C28_AtMostEightyWithSuffix ==
    /\ vres.ensured # <<>> =>
          /\ Len(vres.ensured) <= MaxChannelNameLen
          /\ EndsWith(vres.ensured, LastChars(vreq.chatId, SuffixLen))
    /\ vres.renamed # <<>> =>
          /\ Len(vres.renamed) <= MaxChannelNameLen
          /\ EndsWith(vres.renamed, LastChars(vreq.chatId, SuffixLen))

\* What holds of C28: the name getOrCreateSlackChannel derives has at most
\* 80 characters; both names end with the last 8 characters of the id; the
\* name rename derives has at most 81.
C28_EnsureFitsRenameOneOver ==
    /\ vres.ensured # <<>> =>
          /\ Len(vres.ensured) <= MaxChannelNameLen
          /\ EndsWith(vres.ensured, LastChars(vreq.chatId, SuffixLen))
    /\ vres.renamed # <<>> =>
          /\ Len(vres.renamed) <= MaxChannelNameLen + 1
          /\ EndsWith(vres.renamed, LastChars(vreq.chatId, SuffixLen))

\* A name of 67 letters: rename derives a name of 81 characters.
C28_Witness ==
    /\ vres.renamed # <<>>
    /\ Len(vreq.name) = MaxChannelNameLen - SuffixLen - 5
    /\ Len(NameAsDescribed(vreq.name, vreq.chatId)) = MaxChannelNameLen + 1
    /\ Len(vres.renamed) = MaxChannelNameLen + 1

(***************************************************************************)
(* Claims on a document that cannot be read, checked under SpecPrompt for  *)
(* POST /ai/prompt and under SpecWebhooks for POST /slack/events.          *)
(***************************************************************************)
\* Handler h went through the loop over the documents and one threw.
ReadFailed(h) ==
    /\ "readFiles" \in Range(handlers[h].trace)
    /\ handlers[h].unreadable # {}

\* The prompt has the text of every document that could be read.
OthersInPrompt(h) ==
    \A f \in (1..handlers[h].chat.files) \ handlers[h].unreadable :
        FileText(f) \in Range(handlers[h].sent)

\* The prompt has an entry for document f that is not its text.
NoteInPrompt(h, f) ==
    \E i \in 1..Len(handlers[h].sent) :
        /\ handlers[h].sent[i].name = f
        /\ handlers[h].sent[i].content \notin {"", "text"}

\* The prompt has nothing about document f.
AbsentFromPrompt(h, f) ==
    \A i \in 1..Len(handlers[h].sent) : handlers[h].sent[i].name # f

\* The loop over the documents is followed at once by a catch.
AbortedByRead(h) ==
    \E i \in 1..(Len(handlers[h].trace) - 1) :
        /\ handlers[h].trace[i] = "readFiles"
        /\ handlers[h].trace[i + 1] \in {"caught", "catchFindChat"}

\* C29 as stated, for POST /slack/events: when a document cannot be read
\* the handler goes on, calls the model once, and the prompt has the text
\* of every other document and a note for the one that failed.
C29_EventsPromptHasErrorNote ==
    \A h \in HandlerIds :
        ReadFailed(h) =>
            /\ ~AbortedByRead(h)
            /\ Occurrences(handlers[h].trace, "callGemini") = 1
            /\ OthersInPrompt(h)
            /\ \A f \in handlers[h].unreadable : NoteInPrompt(h, f)

\* What holds of C29 for POST /slack/events: the handler goes on and calls
\* the model once with the text of every other document, and the prompt
\* has nothing about the document that failed.
C29_EventsPromptDropsDocument ==
    \A h \in HandlerIds :
        ReadFailed(h) =>
            /\ ~AbortedByRead(h)
            /\ Occurrences(handlers[h].trace, "callGemini") = 1
            /\ OthersInPrompt(h)
            /\ \A f \in handlers[h].unreadable : AbsentFromPrompt(h, f)

\* An event answered by the model although the first of two documents
\* could not be read: the prompt has the second and no note.
C29_Witness ==
    \E h \in HandlerIds :
        /\ handlers[h].req.ep = "events"
        /\ ReadFailed(h)
        /\ handlers[h].unreadable = {1}
        /\ handlers[h].aiResponse = "answer"
        /\ Len(handlers[h].sent) = MaxFiles + 1
        /\ FileText(MaxFiles) \in Range(handlers[h].sent)
        /\ ~NoteInPrompt(h, 1)

\* What holds of C29 for POST /ai/prompt, in both copies of the route: when
\* a document cannot be read the handler goes on; if it gets to the model it
\* calls it once, with the text of every other document and a note for the
\* one that failed.
C29_InteractivePromptHasErrorNote ==
    \A h \in HandlerIds :
        ReadFailed(h) =>
            /\ ~AbortedByRead(h)
            /\ Occurrences(handlers[h].trace, "callGemini") <= 1
            /\ Finished(h) /\ handlers[h].res.status = 200 =>
                  Occurrences(handlers[h].trace, "callGemini") = 1
            /\ "callGemini" \in Range(handlers[h].trace) =>
                  /\ OthersInPrompt(h)
                  /\ \A f \in handlers[h].unreadable : NoteInPrompt(h, f)

\* A prompt answered although one of two documents could not be read.
C29_WitnessInteractive ==
    \E h \in HandlerIds :
        /\ ReadFailed(h)
        /\ handlers[h].unreadable = {1}
        /\ handlers[h].chat.files = MaxFiles
        /\ handlers[h].res.status = 200
        /\ FileText(MaxFiles) \in Range(handlers[h].sent)
        /\ NoteInPrompt(h, 1)

(***************************************************************************)
(* Claim on the URL verification handshake, checked under SpecWebhooks.    *)
(***************************************************************************)
HandshakeRequests == {h \in HandlerIds : handlers[h].req.bodyType = "url_verification"}

\* The step takes in a request of type url_verification.
HandshakeArrives ==
    \E h \in HandlerIds :
        /\ handlers[h].pc = "idle"
        /\ handlers'[h].req.bodyType = "url_verification"

\* C30: a request to /slack/events whose body has type url_verification is
\* answered 200 with the challenge whatever its signature, in the step in
\* which it arrives; that step leaves users, chats, messages and Slack as
\* they were, and the handler does nothing else: no acknowledgement, no
\* event processing, no message and no post of its own.
C30_HandshakeEchoesWithoutCheck ==
    /\ [][HandshakeArrives => UNCHANGED <<users, chats, messages, slack>>]_vars
    /\ [](\A h \in HandshakeRequests :
            /\ handlers[h].pc = "done"
            /\ handlers[h].res = [status |-> 200, text |-> "challenge"]
            /\ handlers[h].trace = <<"challenge">>
            /\ MessagesBy(h, "user") \cup MessagesBy(h, "ai") = {}
            /\ \A i \in 1..Len(slack.posts) : slack.posts[i].by # h)

\* A handshake with a forged signature and a message event in its body got
\* the challenge back.
C30_Witness ==
    \E h \in HandshakeRequests :
        /\ ~Verdict(handlers[h].req).next
        /\ handlers[h].req.event = Plain
        /\ handlers[h].res = [status |-> 200, text |-> "challenge"]
        /\ messages = <<>>
        /\ slack.posts = <<>>

(***************************************************************************)
(* Claim on signatures of the wrong length, checked under SpecVerify and   *)
(* SpecVerifyVariant.                                                      *)
(***************************************************************************)
\* The request got as far as the comparison of the signatures: headers,
\* secret and body are there and the timestamp is inside the window.
ReachesComparison ==
    /\ SignatureHeader(vreq) # <<>>
    /\ vreq.timestampHeader # <<>>
    /\ vreq.signingSecret # <<>>
    /\ vreq.rawBody # <<>>
    /\ ~ToNumber(vreq.timestampHeader).nan
    /\ ~OutsideReplayWindow(CurrentTime(vreq.nowMs), ToNumber(vreq.timestampHeader).val)

\* The signature header has not the length of a computed signature.
WrongLength == Len(SignatureHeader(vreq)) # Len(<<"v", "0", "=">>) + HexDigestLen

\* C31 as stated, for the verifier of src/src/routes/slack.js: a signature
\* of the wrong length is rejected 400 "Invalid signature" without a call
\* of timingSafeEqual, and no error leaves the verifier.
C31_VariantRejectsWrongLength ==
    vres # Pending /\ ReachesComparison /\ WrongLength =>
        /\ vres = Reply(FALSE, 400, "Invalid signature", FALSE)
        /\ vres.text \notin {"RangeError", "TypeError"}

\* What holds of C31: the verifier held in routes/ai.js rejects a signature
\* of the wrong length 400 "Invalid signature" without a call of
\* timingSafeEqual, and always answers or calls next().
C31_WrongLengthRejectedUncompared ==
    /\ vres # Pending /\ ReachesComparison /\ WrongLength =>
          vres = Reply(FALSE, 400, "Invalid signature", FALSE)
    /\ vres # Pending /\ WrongLength => ~vres.compared /\ ~vres.next
    /\ vres # Pending => vres.next \/ vres.status \in {400, 500}

\* A truncated signature made timingSafeEqual throw out of the older
\* verifier.
C31_Witness ==
    /\ ReachesComparison
    /\ vreq.tamper = "truncate"
    /\ WrongLength
    /\ vres = Thrown("RangeError", TRUE)

\* A truncated signature on an otherwise good request, rejected.
C31_WitnessRejected ==
    /\ ReachesComparison
    /\ vreq.tamper = "truncate"
    /\ WrongLength
    /\ vres = Reply(FALSE, 400, "Invalid signature", FALSE)

=============================================================================
